---- MODULE Spec2Model ----
(***************************************************************************)
(* Model of the site audit engine of scan-alf (src/audit.py).              *)
(*                                                                         *)
(*   Spec        the bounded crawler _crawl_site: robots probe, phase 1    *)
(*               (BFS page fetch) and phase 2 (internal link check).       *)
(*   LiveSpec    Spec with weak fairness on the crawler's own steps.       *)
(*                                                                         *)
(* URLs are numbered 1..NumUrls; the numeric order stands for the          *)
(* lexicographic order of the URL strings.  u + FragmentOffset is the raw  *)
(* spelling "u#fragment" of URL u, as a redirect target may carry it.      *)
(* HTTP responses are chosen when a request is made: phase 1 requests a    *)
(* URL at most once, so the choices made along one behaviour form one      *)
(* mapping URL -> response, recorded in `site`.                            *)
(***************************************************************************)
EXTENDS Integers, Sequences, FiniteSets, TLC

\* ---- bounds of the model ------------------------------------------------
NumUrls == 3
MaxSiteLinks == 2
MaxPagesBound == 3
MaxDepthBound == 2
MaxLinkChecksBound == 1
MaxReportPages == 2
MaxPadding == 24
MaxBroken == 26
MaxFindings == 12
MaxRequests == 2
MaxAdvances == 2
MaxResultPages == 2
MaxCalls == 3

\* ---- constants of the program -------------------------------------------
SeedUrl == 1
ExternalUrl == 0
FragmentOffset == 100
NoStatus == -1

NoteRuntimeCrawl == "MAX_RUNTIME_SECONDS reached during crawl."
NoteMaxPages == "MAX_PAGES reached."
NoteMaxLinkChecks == "MAX_LINK_CHECKS reached while checking internal links."
NoteRuntimeLinks == "MAX_RUNTIME_SECONDS reached while checking internal links."

Urls == 1..NumUrls

\* the URLs a status may be cached for: those of the site and one of another origin
CacheKeys == Urls \cup {ExternalUrl}

NoValue == [kind |-> "none"]

VARIABLES
    pc,                     \* position inside _crawl_site
    max_pages, max_depth, max_link_checks,
    expired,                \* time.monotonic() - started_at >= max_runtime_seconds
    robots_info,
    queue, queued, visited, pages, status_cache, all_internal_links,
    skipped_by_robots, non_html_urls, fetch_errors, limit_notes,
    link_todo,              \* rest of `for link in sorted(all_internal_links)`
    links_checked, broken_internal_links,
    site,                   \* responses the page GETs of phase 1 have returned
    requests,               \* requests sent by phase 1 and phase 2, in order
    crawl,                  \* argument of _build_sections
    include_limit_findings, \* argument of _build_sections
    report,                 \* what _build_sections returns
    findings,               \* argument of _build_section
    section,                \* what _build_section returns
    raw_url,                \* argument of validate_url
    validated,              \* what validate_url returns or raises
    api_token,              \* API_TOKEN of the service
    now,                    \* time.time()
    audit_cache,            \* _AUDIT_CACHE
    summary_cache,          \* _SUMMARY_CACHE
    served,                 \* requests answered so far
    advances,               \* times the clock has moved
    last_report,            \* per URL, the latest answer of run_report_json
    exchange,               \* the latest request with its answer
    set_order,              \* order in which this run iterates over a set of URLs
    first_run,              \* the audit being repeated against the same site
    result_dict,            \* argument `result` of generate_report
    rendered,               \* what generate_report returns, line by line
    calls                   \* the calls of _get_or_run_detailed_audit in progress

vars == <<pc, max_pages, max_depth, max_link_checks, expired, robots_info,
          queue, queued, visited, pages, status_cache, all_internal_links,
          skipped_by_robots, non_html_urls, fetch_errors, limit_notes,
          link_todo, links_checked, broken_internal_links, site, requests,
          crawl, include_limit_findings, report, findings, section,
          raw_url, validated, api_token, now, audit_cache, summary_cache,
          served, advances, last_report, exchange, set_order, first_run,
          result_dict, rendered, calls>>

reportVars == <<crawl, include_limit_findings, report, findings, section>>

urlVars == <<raw_url, validated>>

apiVars == <<api_token, now, audit_cache, summary_cache, served, advances,
             last_report, exchange>>

runVars == <<set_order, first_run>>

slideVars == <<result_dict, rendered>>

callVars == <<calls>>

serviceVars == <<urlVars, apiVars, runVars, slideVars, callVars>>


\* ---- helpers --------------------------------------------------------------
\* _norm_link: drops the fragment (and params), defaults the path to "/".
NormLink(url) == IF url > FragmentOffset THEN url - FragmentOffset ELSE url

\* `note not in limit_notes` / limit_notes.append(note)
AppendNote(notes, note) ==
    IF \E i \in DOMAIN notes : notes[i] = note THEN notes ELSE Append(notes, note)

RECURSIVE SortedSeq(_)
\* sorted(all_internal_links)
SortedSeq(S) ==
    IF S = {} THEN <<>>
    ELSE LET m == CHOOSE x \in S : \A y \in S : x <= y
         IN  <<m>> \o SortedSeq(S \ {m})

\* robot_parser and not robot_parser.can_fetch(USER_AGENT, url)
RobotsDisallows(info, url) == info.robot_parser /\ url \in info.disallowed

\* ---- responses of the HTTP collaborator -----------------------------------
\* internal_links of a page: same-origin URLs, no URL twice; n bounds the length
LinkLists(n) ==
    {s \in UNION {[1..k -> Urls] : k \in 0..n} :
        \A i, j \in DOMAIN s : i # j => s[i] # s[j]}

NoResponse == [kind |-> "none"]

\* the links of a page that names another origin first and then, if the site
\* has room for one more link, a page of the site
ExternalFirst(room) ==
    IF room > 0 THEN {<<ExternalUrl, u>> : u \in Urls} ELSE {<<ExternalUrl>>}

\* What a page GET may produce: an HTML page with links, an HTML error page,
\* an HTML page reached through a redirect to "/#fragment", a non-HTML body,
\* or an exception; an HTML page whose first link leaves the origin; an HTML
\* page reached through a redirect to another page of the site; an HTML page
\* reached through a redirect to another origin, whose relative link stays
\* there and whose absolute link, if it has one, comes back to the site.
\* `links` holds the href of every <a>, joined with the final URL.  A site
\* has at most MaxSiteLinks links to its own pages; room is what the pages
\* crawled so far leave of them.
PageResponses(url, room) ==
    [kind : {"html"}, status : {200}, links : LinkLists(room), url : {url}]
    \cup [kind : {"html"}, status : {404}, links : {<<>>}, url : {url}]
    \cup [kind : {"html"}, status : {200}, links : {<<>>},
          url : {SeedUrl + FragmentOffset}]
    \cup [kind : {"other"}, status : {200}, links : {<<>>}, url : {url}]
    \cup [kind : {"exception"}, status : {0}, links : {<<>>}, url : {url}]
    \cup [kind : {"html"}, status : {200},
          links : ExternalFirst(room),
          url : {url}]
    \cup [kind : {"html"}, status : {200}, links : {<<>>},
          url : Urls \ {url, SeedUrl}]
    \cup [kind : {"html"}, status : {200},
          links : ExternalFirst(room),
          url : {ExternalUrl}]

\* The site answers a repeated audit as it answered the first one: a URL the
\* first audit fetched returns the response recorded for it.
PageResponsesOfRun(url, room) ==
    IF first_run # NoValue /\ first_run.site[url] # NoResponse
    THEN {first_run.site[url]}
    ELSE PageResponses(url, room)

\* ---- _extract_internal_links ----------------------------------------------
\* scheme and netloc of a URL: those of the site, or those of the other origin
OriginOf(url) == IF NormLink(url) \in Urls THEN "site" ELSE "other"

\* variant: every link counts as a link of the site
SameOriginAlways(url, origin) == TRUE

\* _same_origin
SameOrigin(url, origin) == OriginOf(url) = OriginOf(origin)

RECURSIVE FromKeys(_, _)
\* list(dict.fromkeys(found)): the first occurrence of every element
FromKeys(found, kept) ==
    IF found = <<>> THEN kept
    ELSE FromKeys(Tail(found),
                  IF \E i \in DOMAIN kept : kept[i] = Head(found)
                  THEN kept ELSE Append(kept, Head(found)))

RECURSIVE FoundLinks(_, _)
\* the loop over the <a href> of a page: found.append(_norm_link(absolute))
FoundLinks(hrefs, origin) ==
    IF hrefs = <<>> THEN <<>>
    ELSE (IF SameOrigin(Head(hrefs), origin)
          THEN <<NormLink(Head(hrefs))>> ELSE <<>>)
         \o FoundLinks(Tail(hrefs), origin)

ExtractInternalLinks(hrefs, origin) == FromKeys(FoundLinks(hrefs, origin), <<>>)

\* ---- _parse_html_page and the failure record ------------------------------
ParseHtmlPage(url, response, depth) ==
    [url |-> NormLink(url),
     final_url |-> NormLink(response.url),
     status |-> response.status,
     is_html |-> response.kind = "html",
     internal_links |-> IF response.kind = "html"
                        THEN ExtractInternalLinks(response.links, SeedUrl)
                        ELSE <<>>,
     depth |-> depth,
     error |-> FALSE]

FailurePage(url, depth) ==
    [url |-> NormLink(url),
     final_url |-> NormLink(url),
     status |-> 0,
     is_html |-> FALSE,
     internal_links |-> <<>>,
     depth |-> depth,
     error |-> TRUE]

\* ---- initial state --------------------------------------------------------

ReportIdle ==
    /\ crawl = NoValue
    /\ include_limit_findings = FALSE
    /\ report = NoValue
    /\ findings = <<>>
    /\ section = NoValue

\* no request is being served
ApiIdle ==
    /\ api_token = ""
    /\ now = 0
    /\ audit_cache = NoValue
    /\ summary_cache = NoValue
    /\ served = 0
    /\ advances = 0
    /\ last_report = NoValue
    /\ exchange = NoValue

\* a first audit: a set of URLs is iterated in ascending order
RunIdle ==
    /\ set_order = [i \in 1..NumUrls |-> i]
    /\ first_run = NoValue

\* generate_report has not been called
SlideIdle ==
    /\ result_dict = NoValue
    /\ rendered = <<>>

\* no call of _get_or_run_detailed_audit is being followed
CallIdle == calls = <<>>

ServiceIdle ==
    /\ raw_url = NoValue
    /\ validated = NoValue
    /\ ApiIdle
    /\ RunIdle
    /\ SlideIdle
    /\ CallIdle

\* the state of _crawl_site before its first request
CrawlStart ==
    /\ expired = FALSE
    /\ robots_info = [robots_present |-> FALSE, robots_status |-> NoStatus,
                      sitemap_present |-> FALSE, robot_parser |-> FALSE,
                      disallowed |-> {}]
    /\ queue = <<<<SeedUrl, 0>>>>
    /\ queued = {SeedUrl}
    /\ visited = {}
    /\ pages = <<>>
    /\ status_cache = [u \in CacheKeys |-> NoStatus]
    /\ all_internal_links = {}
    /\ skipped_by_robots = 0
    /\ non_html_urls = 0
    /\ fetch_errors = <<>>
    /\ limit_notes = <<>>
    /\ link_todo = <<>>
    /\ links_checked = 0
    /\ broken_internal_links = <<>>
    /\ site = [u \in Urls |-> NoResponse]
    /\ requests = <<>>

Init ==
    /\ pc = "robots"
    /\ max_pages \in {1, 2, MaxPagesBound}
    /\ max_depth \in {0, 1, MaxDepthBound}
    /\ max_link_checks \in {0, MaxLinkChecksBound}
    /\ CrawlStart
    /\ ReportIdle
    /\ ServiceIdle

\* ---- _fetch_robots_and_sitemap --------------------------------------------
\* the rules of a robots.txt: nothing disallowed, or one URL
DisallowSets == {{}} \cup {{u} : u \in Urls}

\* What the probe may find: robots.txt with rules (it names the sitemap or
\* not), no robots.txt (sitemap.xml found or not), or a failed request.
RobotsOutcomes ==
    [status : {200}, disallowed : DisallowSets, sitemap : {TRUE}]
    \cup [status : {200}, disallowed : {{}}, sitemap : {FALSE}]
    \cup [status : {404}, disallowed : {{}}, sitemap : BOOLEAN]
    \cup [status : {NoStatus}, disallowed : {{}}, sitemap : {FALSE}]

FetchRobotsAndSitemap(status, disallowed, sitemap) ==
    [robots_present |-> status = 200,
     robots_status |-> status,
     sitemap_present |-> sitemap,
     robot_parser |-> status = 200,
     disallowed |-> IF status = 200 THEN disallowed ELSE {}]

FetchRobots ==
    /\ pc = "robots"
    /\ \E probe \in RobotsOutcomes :
          /\ robots_info' = FetchRobotsAndSitemap(probe.status, probe.disallowed,
                                                  probe.sitemap)
          /\ first_run # NoValue => robots_info' = first_run.returned.robots
    /\ pc' = "crawl"
    /\ UNCHANGED <<max_pages, max_depth, max_link_checks, expired,
                   queue, queued, visited, pages, status_cache, all_internal_links,
                   skipped_by_robots, non_html_urls, fetch_errors, limit_notes,
                   link_todo, links_checked, broken_internal_links, site, requests>>
    /\ UNCHANGED <<reportVars, serviceVars>>

\* ---- the wall clock -------------------------------------------------------
\* The elapsed time passes max_runtime_seconds at some moment and stays there.
Tick ==
    /\ pc \in {"robots", "crawl", "links"}
    /\ ~expired
    /\ first_run = NoValue      \* a repeated audit is one no time budget stops
    /\ expired' = TRUE
    /\ UNCHANGED <<pc, max_pages, max_depth, max_link_checks, robots_info,
                   queue, queued, visited, pages, status_cache, all_internal_links,
                   skipped_by_robots, non_html_urls, fetch_errors, limit_notes,
                   link_todo, links_checked, broken_internal_links, site, requests>>
    /\ UNCHANGED <<reportVars, serviceVars>>

\* ---- phase 1: BFS page fetch ----------------------------------------------
RECURSIVE LinksOfPages(_)
\* the internal_links of the records of a page list, one list after another
LinksOfPages(ps) ==
    IF ps = <<>> THEN <<>> ELSE Head(ps).internal_links \o LinksOfPages(Tail(ps))

\* variant: the budget test lets one page too many through
PagesBudgetReachedLate(n, limit) == n > limit

\* len(pages) >= max_pages
PagesBudgetReached(n, limit) == n >= limit

\* variant: links of pages at depth = max_depth are followed too
MayFollowInclusive(depth, limit) == depth <= limit

\* depth < max_depth, the condition under which a link is followed
MayFollow(depth, limit) == depth < limit

\* variant: the popped entry stays in the queue
QueuePopKeeps(q) == q

\* queue.popleft(): what is left of the queue
QueuePop(q) == Tail(q)

\* variant: the failure is not recorded
RecordFetchErrorDropped(errors, url) == errors

\* fetch_errors.append({"url": current_url, "error": page["error"]})
RecordFetchError(errors, url) == Append(errors, [url |-> url])

\* variant: the frontier is a stack
QueuePushFront(q, link, depth) == <<<<link, depth + 1>>>> \o q

\* queue.append((link, depth + 1))
QueuePush(q, link, depth) == Append(q, <<link, depth + 1>>)

\* variant: only the queue is asked whether a link is known
AlreadyQueued(link, vis, qd) == link \in qd

\* `link not in visited and link not in queued`, negated
AlreadyKnown(link, vis, qd) == link \in vis \/ link \in qd

\* variant: a popped URL stays in queued
DiscardNothing(qd, url) == qd

\* queued.discard(current_url)
Discard(qd, url) == qd \ {url}

RECURSIVE EnqueueLinks(_, _, _, _, _)
\* for link in page["internal_links"]: ... queued.add(link); queue.append(...)
EnqueueLinks(links, depth, q, qd, vis) ==
    IF links = <<>> THEN [queue |-> q, queued |-> qd]
    ELSE LET link == Head(links)
         IN  IF MayFollow(depth, max_depth) /\ ~AlreadyKnown(link, vis, qd)
             THEN EnqueueLinks(Tail(links), depth, QueuePush(q, link, depth),
                               qd \cup {link}, vis)
             ELSE EnqueueLinks(Tail(links), depth, q, qd, vis)

\* the page record of one GET: parsed response, or the failure record
FetchPage(url, response, depth) ==
    IF response.kind = "exception"
    THEN FailurePage(url, depth)
    ELSE ParseHtmlPage(url, response, depth)

\* variant: every fetched record is kept
AdmitsPageAlways(page) == TRUE

\* page["is_html"], the test that admits a record to pages
AdmitsPage(page) == page.is_html

\* iterating over a set of URLs: its members in the order of this run
SetIteration(S, order) == SelectSeq(order, LAMBDA u : u \in S)

\* variant: the links are checked in the order the set yields them
Unsorted(iterated) == iterated

\* sorted(all_internal_links)
Sorted(iterated) == SortedSeq({iterated[i] : i \in DOMAIN iterated})

\* the for statement of phase 2 starts when the while loop is left
StartLinkPhase ==
    /\ pc' = "links"
    /\ link_todo' = IF max_link_checks > 0
                    THEN Sorted(SetIteration(all_internal_links, set_order))
                    ELSE <<>>

CrawlRuntimeLimit ==
    /\ pc = "crawl"
    /\ queue # <<>>
    /\ expired
    /\ limit_notes' = AppendNote(limit_notes, NoteRuntimeCrawl)
    /\ StartLinkPhase
    /\ UNCHANGED <<max_pages, max_depth, max_link_checks, expired, robots_info,
                   queue, queued, visited, pages, status_cache, all_internal_links,
                   skipped_by_robots, non_html_urls, fetch_errors,
                   links_checked, broken_internal_links, site, requests>>
    /\ UNCHANGED <<reportVars, serviceVars>>

CrawlMaxPages ==
    /\ pc = "crawl"
    /\ queue # <<>>
    /\ ~expired
    /\ PagesBudgetReached(Len(pages), max_pages)
    /\ limit_notes' = AppendNote(limit_notes, NoteMaxPages)
    /\ StartLinkPhase
    /\ UNCHANGED <<max_pages, max_depth, max_link_checks, expired, robots_info,
                   queue, queued, visited, pages, status_cache, all_internal_links,
                   skipped_by_robots, non_html_urls, fetch_errors,
                   links_checked, broken_internal_links, site, requests>>
    /\ UNCHANGED <<reportVars, serviceVars>>

CrawlQueueEmpty ==
    /\ pc = "crawl"
    /\ queue = <<>>
    /\ StartLinkPhase
    /\ UNCHANGED <<max_pages, max_depth, max_link_checks, expired, robots_info,
                   queue, queued, visited, pages, status_cache, all_internal_links,
                   skipped_by_robots, non_html_urls, fetch_errors, limit_notes,
                   links_checked, broken_internal_links, site, requests>>
    /\ UNCHANGED <<reportVars, serviceVars>>

\* one iteration of the while loop that gets past the two budget checks
CrawlPop ==
    /\ pc = "crawl"
    /\ queue # <<>>
    /\ ~expired
    /\ ~PagesBudgetReached(Len(pages), max_pages)
    /\ LET current_url == Head(queue)[1]
           depth == Head(queue)[2]
           rest == QueuePop(queue)
           seen == current_url \in visited
           skip == seen \/ depth > max_depth
                        \/ RobotsDisallows(robots_info, current_url)
       IN  /\ visited' = visited \cup {current_url}
           /\ IF skip
              THEN /\ queue' = rest
                   /\ queued' = Discard(queued, current_url)
                   /\ skipped_by_robots' =
                          IF ~seen /\ depth <= max_depth
                          THEN skipped_by_robots + 1 ELSE skipped_by_robots
                   /\ UNCHANGED <<pages, status_cache, all_internal_links,
                                  non_html_urls, fetch_errors, site, requests>>
              ELSE \E response \in PageResponsesOfRun(current_url,
                                   MaxSiteLinks - Len(LinksOfPages(pages))) :
                   LET page == FetchPage(current_url, response, depth)
                       links == page.internal_links
                       next == EnqueueLinks(links, depth, rest,
                                            Discard(queued, current_url), visited')
                   IN  /\ site' = [site EXCEPT ![current_url] = response]
                       /\ requests' = Append(requests, <<"GET", current_url>>)
                       /\ fetch_errors' =
                              IF response.kind = "exception"
                              THEN RecordFetchError(fetch_errors, current_url)
                              ELSE fetch_errors
                       /\ status_cache' = [status_cache EXCEPT
                                              ![page.url] = page.status,
                                              ![page.final_url] = page.status]
                       /\ skipped_by_robots' = skipped_by_robots
                       /\ IF AdmitsPage(page)
                          THEN /\ pages' = Append(pages, page)
                               /\ all_internal_links' = all_internal_links
                                      \cup {links[i] : i \in DOMAIN links}
                               /\ queue' = next.queue
                               /\ queued' = next.queued
                               /\ non_html_urls' = non_html_urls
                          ELSE /\ non_html_urls' = non_html_urls + 1
                               /\ queue' = rest
                               /\ queued' = Discard(queued, current_url)
                               /\ UNCHANGED <<pages, all_internal_links>>
    /\ UNCHANGED <<pc, max_pages, max_depth, max_link_checks, expired, robots_info,
                   limit_notes, link_todo, links_checked, broken_internal_links>>
    /\ UNCHANGED <<reportVars, serviceVars>>

\* ---- phase 2: internal link verification ----------------------------------
Raised == -2
HeadOutcomes == {200, 404, 405, 501, Raised}
GetOutcomes == {200, 404, Raised}

\* variant: the status of the HEAD request is final
ResolveStatusHeadOnly(head, get) == IF head = Raised THEN 0 ELSE head

\* status of client.head(link), followed by client.get(link) on 405/501
ResolveStatus(head, get) ==
    IF head = Raised THEN 0
    ELSE IF head \in {405, 501}
         THEN (IF get = Raised THEN 0 ELSE get)
         ELSE head

\* The HEAD and GET outcomes of a link in this run: any, or in a repeated
\* audit those the first audit got when it checked the link.
LinkOutcomesOfRun(link) ==
    LET all == HeadOutcomes \X GetOutcomes
        asked(method) == \E i \in DOMAIN first_run.requests :
                            first_run.requests[i] = <<method, link>>
    IN  IF first_run # NoValue /\ first_run.site[link] = NoResponse
                               /\ asked("HEAD")
        THEN {o \in all :
                /\ ResolveStatus(o[1], o[2]) = first_run.returned.status_cache[link]
                /\ (o[1] \in {405, 501}) <=> asked("GET")}
        ELSE all

\* status >= 400 or status == 0
IsBroken(status) == status >= 400 \/ status = 0

\* the for loop moves on to the next link
RestOfLinks(todo) == Tail(todo)

\* variant: the budget test lets one check too many through
LinkBudgetReachedLate(n, limit) == n > limit

\* links_checked >= max_link_checks
LinkBudgetReached(n, limit) == n >= limit

LinkCheckLimit ==
    /\ pc = "links"
    /\ link_todo # <<>>
    /\ LinkBudgetReached(links_checked, max_link_checks)
    /\ limit_notes' = AppendNote(limit_notes, NoteMaxLinkChecks)
    /\ pc' = "done"
    /\ UNCHANGED <<max_pages, max_depth, max_link_checks, expired, robots_info,
                   queue, queued, visited, pages, status_cache, all_internal_links,
                   skipped_by_robots, non_html_urls, fetch_errors,
                   link_todo, links_checked, broken_internal_links, site, requests>>
    /\ UNCHANGED <<reportVars, serviceVars>>

LinkRuntimeLimit ==
    /\ pc = "links"
    /\ link_todo # <<>>
    /\ ~LinkBudgetReached(links_checked, max_link_checks)
    /\ expired
    /\ limit_notes' = AppendNote(limit_notes, NoteRuntimeLinks)
    /\ pc' = "done"
    /\ UNCHANGED <<max_pages, max_depth, max_link_checks, expired, robots_info,
                   queue, queued, visited, pages, status_cache, all_internal_links,
                   skipped_by_robots, non_html_urls, fetch_errors,
                   link_todo, links_checked, broken_internal_links, site, requests>>
    /\ UNCHANGED <<reportVars, serviceVars>>

LinkCheck ==
    /\ pc = "links"
    /\ link_todo # <<>>
    /\ ~LinkBudgetReached(links_checked, max_link_checks)
    /\ ~expired
    /\ LET link == Head(link_todo)
       IN  /\ link_todo' = RestOfLinks(link_todo)
           /\ IF RobotsDisallows(robots_info, link)
              THEN UNCHANGED <<links_checked, status_cache,
                               broken_internal_links, requests>>
              ELSE \E outcome \in LinkOutcomesOfRun(link) :
                   LET head == outcome[1]
                       get == outcome[2]
                       cached == status_cache[link] # NoStatus
                       status == IF cached THEN status_cache[link]
                                 ELSE ResolveStatus(head, get)
                   IN  /\ links_checked' = links_checked + 1
                       /\ status_cache' = [status_cache EXCEPT ![link] = status]
                       /\ requests' =
                              IF cached THEN requests
                              ELSE IF head \in {405, 501}
                                   THEN requests \o <<<<"HEAD", link>>, <<"GET", link>>>>
                                   ELSE Append(requests, <<"HEAD", link>>)
                       /\ broken_internal_links' =
                              IF IsBroken(status)
                              THEN Append(broken_internal_links,
                                          [url |-> link, status |-> status])
                              ELSE broken_internal_links
    /\ UNCHANGED <<pc, max_pages, max_depth, max_link_checks, expired, robots_info,
                   queue, queued, visited, pages, all_internal_links,
                   skipped_by_robots, non_html_urls, fetch_errors, limit_notes, site>>
    /\ UNCHANGED <<reportVars, serviceVars>>

LinksDone ==
    /\ pc = "links"
    /\ link_todo = <<>>
    /\ pc' = "done"
    /\ UNCHANGED <<max_pages, max_depth, max_link_checks, expired, robots_info,
                   queue, queued, visited, pages, status_cache, all_internal_links,
                   skipped_by_robots, non_html_urls, fetch_errors, limit_notes,
                   link_todo, links_checked, broken_internal_links, site, requests>>
    /\ UNCHANGED <<reportVars, serviceVars>>

\* ---- specification of the crawler -----------------------------------------
CrawlerStep ==
    \/ FetchRobots
    \/ CrawlRuntimeLimit
    \/ CrawlMaxPages
    \/ CrawlQueueEmpty
    \/ CrawlPop
    \/ LinkCheckLimit
    \/ LinkRuntimeLimit
    \/ LinkCheck
    \/ LinksDone

Next == CrawlerStep \/ Tick

Spec == Init /\ [][Next]_vars

\* The crawler is one sequential task: whenever it has a step, it takes it.
LiveSpec == Spec /\ WF_vars(CrawlerStep)

\* ---- properties of the crawler --------------------------------------------
CountNote(notes, note) == Cardinality({i \in DOMAIN notes : notes[i] = note})
HasNote(notes, note) == \E i \in DOMAIN notes : notes[i] = note

NonHtmlKinds == {"other", "exception"}
PageUrls == {pages[i].url : i \in DOMAIN pages}

\* URLs in the order the crawl came to know them: the seed, then every link
\* in the order the crawled pages list them
Discovered == <<SeedUrl>> \o LinksOfPages(pages)
FirstSeen(u) == CHOOSE i \in DOMAIN Discovered :
                    Discovered[i] = u /\ \A j \in 1..(i - 1) : Discovered[j] # u

\* C1: in phase 1 len(pages) never exceeds max_pages; once it has reached
\* max_pages no URL is popped or fetched any more; and when the loop is left
\* because of the page budget, "MAX_PAGES reached." is in limit_notes exactly once.
C1_PageBudget ==
    /\ [](Len(pages) <= max_pages /\ CountNote(limit_notes, NoteMaxPages) <= 1)
    /\ [][/\ (pc = "crawl" /\ Len(pages) >= max_pages)
                => (queue' = queue /\ visited' = visited /\ pages' = pages
                    /\ site' = site /\ requests' = requests)
          /\ (pc = "crawl" /\ pc' = "links" /\ queue # <<>> /\ ~expired
                /\ Len(pages) >= max_pages)
                => CountNote(limit_notes', NoteMaxPages) = 1]_vars

C1_Witness ==
    /\ pc = "links"
    /\ max_pages >= 2
    /\ Len(pages) = max_pages
    /\ queue # <<>>
    /\ CountNote(limit_notes, NoteMaxPages) = 1

\* C2: pages is in BFS order: a record of smaller depth comes before any record
\* of larger depth, and records of equal depth come in the order in which
\* their URLs were first discovered.
C2_BfsOrder ==
    \A i, j \in DOMAIN pages :
        i < j => /\ pages[i].depth <= pages[j].depth
                 /\ pages[i].depth = pages[j].depth
                        => FirstSeen(pages[i].url) < FirstSeen(pages[j].url)

C2_Witness ==
    /\ Len(pages) = 3
    /\ pages[1].depth < pages[2].depth
    /\ pages[2].depth = pages[3].depth
    /\ pages[2].url > pages[3].url

\* C3: every record in pages is an HTML page; a URL whose response is not
\* text/html, or whose GET failed, has no record in pages and is counted in
\* non_html_urls instead.
C3_OnlyHtmlPages ==
    /\ \A i \in DOMAIN pages :
          pages[i].is_html /\ site[pages[i].url].kind = "html"
    /\ \A u \in Urls : site[u].kind \in NonHtmlKinds => u \notin PageUrls
    /\ non_html_urls = Cardinality({u \in Urls : site[u].kind \in NonHtmlKinds})

C3_Witness ==
    /\ Len(pages) >= 1
    /\ \E u, v \in Urls : site[u].kind = "other" /\ site[v].kind = "exception"
    /\ non_html_urls = 2

C5_FetchErrorContained ==
    /\ [][\A u \in Urls :
            (site[u].kind = "none" /\ site'[u].kind = "exception")
                => /\ fetch_errors' = Append(fetch_errors, [url |-> u])
                   /\ status_cache'[u] = 0
                   /\ pages' = pages
                   /\ queue' = Tail(queue)
                   /\ pc' = "crawl"]_vars
    /\ [](\A u \in Urls :
            Cardinality({i \in DOMAIN fetch_errors : fetch_errors[i].url = u})
                = IF site[u].kind = "exception" THEN 1 ELSE 0)
    /\ []((pc \in {"links", "done"} /\ fetch_errors # <<>>)
            => \/ queue = <<>>
               \/ HasNote(limit_notes, NoteRuntimeCrawl)
               \/ HasNote(limit_notes, NoteMaxPages))
    /\ <>(pc = "done" /\ Len(fetch_errors) = Cardinality({u \in Urls : site[u].kind = "exception"}))

C5_Witness ==
    /\ pc = "done"
    /\ \E i, j \in DOMAIN requests :
          /\ i < j
          /\ requests[i][1] = "GET" /\ site[requests[i][2]].kind = "exception"
          /\ requests[j][1] = "GET" /\ site[requests[j][2]].kind = "html"

\* C6: _crawl_site terminates and returns, whatever the responses and the
\* budgets: phase 1 ends, phase 2 makes at most one pass over
\* all_internal_links, and a tripped budget ends the run with partial results.
C6_Terminates ==
    /\ <>(pc = "done")
    /\ [](links_checked + Len(link_todo) <= Cardinality(all_internal_links))
    /\ [](limit_notes # <<>> => pc \in {"links", "done"})

C6_Witness ==
    /\ pc = "done"
    /\ limit_notes # <<>>
    /\ Len(pages) >= 1
    /\ links_checked >= 1

\* ===========================================================================
\* Findings engine and section builder: _build_section and _build_sections
\* ===========================================================================
FindingsLimit == 10
NextActionsLimit == 5
TopUrlsLimit == 25
BrokenUrlsLimit == 25
WorstPagesLimit == 20
BrokenCriticalCount == 10
MissingAltHighTotal == 20
CategoryCount == 6

MonitoringAction == "Manter monitoramento recorrente e validar regressao semanal."

\* SEVERITY_ORDER.get(severity, 0)
SeverityOrder(severity) ==
    CASE severity = "critical" -> 4
      [] severity = "high" -> 3
      [] severity = "medium" -> 2
      [] severity = "low" -> 1
      [] OTHER -> 0

\* SEVERITY_PENALTY.get(severity, 0)
SeverityPenalty(severity) ==
    CASE severity = "critical" -> 35
      [] severity = "high" -> 20
      [] severity = "medium" -> 10
      [] severity = "low" -> 4
      [] OTHER -> 0

\* title and how_to_fix that each rule passes to _make_finding
FindingTitle(id) ==
    CASE id = "seo_title_missing" -> "Paginas sem title"
      [] id = "seo_title_length" -> "Titles fora do tamanho recomendado"
      [] id = "seo_meta_description_missing" -> "Meta description ausente"
      [] id = "seo_meta_description_length" -> "Meta descriptions fora do tamanho recomendado"
      [] id = "seo_canonical_missing" -> "Canonical ausente"
      [] id = "seo_h1_count" -> "Estrutura de H1 inconsistente"
      [] id = "seo_broken_internal_links" -> "Links internos quebrados"
      [] id = "a11y_img_alt_missing" -> "Imagens sem texto alternativo"
      [] id = "a11y_input_label_missing" -> "Campos de formulario sem label"
      [] id = "a11y_lang_missing" -> "Atributo lang ausente"
      [] id = "a11y_title_missing" -> "Titulo da pagina ausente"
      [] id = "content_thin_pages" -> "Conteudo muito curto"
      [] id = "content_missing_h1" -> "Estrutura sem heading principal"
      [] id = "perf_slow_ttfb" -> "TTFB elevado"
      [] id = "perf_heavy_html" -> "HTML muito pesado"
      [] id = "perf_many_requests" -> "Muitos recursos na pagina"
      [] id = "perf_render_blocking" -> "Recursos bloqueando renderizacao"
      [] id = "indexacao_robots_missing" -> "robots.txt ausente"
      [] id = "indexacao_sitemap_missing" -> "Sitemap nao encontrado"
      [] id = "indexacao_noindex_pages" -> "Paginas com noindex"
      [] id = "indexacao_canonical_conflict" -> "Canonical apontando para outra origem"
      [] id = "critical_http_errors" -> "Paginas com erro HTTP"
      [] id = "critical_redirect_chains" -> "Cadeias de redirecionamento longas"
      [] id = "critical_mixed_content" -> "Mixed content em paginas HTTPS"
      [] id = "critical_partial_crawl" -> "Crawl parcial por limite de seguranca"

FindingFix(id) ==
    CASE id = "seo_title_missing" ->
            "Definir um title unico e descritivo por pagina."
      [] id = "seo_title_length" ->
            "Manter titles entre 15 e 60 caracteres."
      [] id = "seo_meta_description_missing" ->
            "Adicionar meta description unica e objetiva em cada pagina."
      [] id = "seo_meta_description_length" ->
            "Ajustar meta descriptions para faixa entre 70 e 160 caracteres."
      [] id = "seo_canonical_missing" ->
            "Adicionar <link rel='canonical'> em paginas indexaveis."
      [] id = "seo_h1_count" ->
            "Garantir exatamente um H1 principal por pagina."
      [] id = "seo_broken_internal_links" ->
            "Corrigir URLs quebradas e atualizar links de navegacao."
      [] id = "a11y_img_alt_missing" ->
            "Definir atributo alt descritivo em todas as imagens relevantes."
      [] id = "a11y_input_label_missing" ->
            "Associar labels via for/id ou usar aria-label/aria-labelledby."
      [] id = "a11y_lang_missing" ->
            "Definir lang apropriado no elemento <html>."
      [] id = "a11y_title_missing" ->
            "Adicionar tag <title> descritiva em todas as paginas."
      [] id = "content_thin_pages" ->
            "Expandir conteudo util com contexto, prova e CTA claros."
      [] id = "content_missing_h1" ->
            "Incluir heading principal alinhado com o objetivo da pagina."
      [] id = "perf_slow_ttfb" ->
            "Revisar backend, cache e latencia de servidor."
      [] id = "perf_heavy_html" ->
            "Reduzir markup redundante e componentes inline excessivos."
      [] id = "perf_many_requests" ->
            "Consolidar e otimizar scripts, CSS e imagens."
      [] id = "perf_render_blocking" ->
            "Aplicar defer/async em scripts e otimizar CSS critico."
      [] id = "indexacao_robots_missing" ->
            "Publicar robots.txt com regras claras de rastreamento."
      [] id = "indexacao_sitemap_missing" ->
            "Gerar sitemap.xml atualizado e referenciar no robots.txt."
      [] id = "indexacao_noindex_pages" ->
            "Revisar noindex e manter apenas em paginas que realmente devem ficar fora do indice."
      [] id = "indexacao_canonical_conflict" ->
            "Ajustar canonical para URL canonica correta do mesmo site."
      [] id = "critical_http_errors" ->
            "Corrigir rotas quebradas e falhas de servidor prioritariamente."
      [] id = "critical_redirect_chains" ->
            "Reduzir para no maximo um redirecionamento por URL."
      [] id = "critical_mixed_content" ->
            "Migrar todos os recursos para HTTPS."
      [] id = "critical_partial_crawl" ->
            "Reexecutar auditoria apos reduzir complexidade de rastreamento ou revisar arquitetura."

\* The titles in the order of their lower-cased text, which is the second
\* component of the sort key; the upper-case spelling of the first title
\* shares its place.
TitlesInOrder ==
    <<"Atributo lang ausente",
      "Cadeias de redirecionamento longas",
      "Campos de formulario sem label",
      "Canonical apontando para outra origem",
      "Canonical ausente",
      "Conteudo muito curto",
      "Crawl parcial por limite de seguranca",
      "Estrutura de H1 inconsistente",
      "Estrutura sem heading principal",
      "HTML muito pesado",
      "Imagens sem texto alternativo",
      "Links internos quebrados",
      "Meta description ausente",
      "Meta descriptions fora do tamanho recomendado",
      "Mixed content em paginas HTTPS",
      "Muitos recursos na pagina",
      "Paginas com erro HTTP",
      "Paginas com noindex",
      "Paginas sem title",
      "Recursos bloqueando renderizacao",
      "robots.txt ausente",
      "Sitemap nao encontrado",
      "Titles fora do tamanho recomendado",
      "Titulo da pagina ausente",
      "TTFB elevado">>

ShoutedTitle == "ATRIBUTO LANG AUSENTE"

\* str(title).lower(), as its place among the titles
LowerTitleKey(title) ==
    IF title = ShoutedTitle THEN 1
    ELSE IF \E i \in DOMAIN TitlesInOrder : TitlesInOrder[i] = title
         THEN CHOOSE i \in DOMAIN TitlesInOrder : TitlesInOrder[i] = title
         ELSE 0

\* str.strip() on the how_to_fix texts: the padded spellings lose their blanks
Strip(text) ==
    CASE text = " " -> ""
      [] text = " Migrar todos os recursos para HTTPS. " ->
            "Migrar todos os recursos para HTTPS."
      [] OTHER -> text

\* _make_finding
MakeFinding(id, severity, evidence_url, affected_urls) ==
    [id |-> id,
     severity |-> severity,
     title |-> FindingTitle(id),
     how_to_fix |-> FindingFix(id),
     evidence |-> <<[url |-> evidence_url]>>,
     affected_urls |-> affected_urls]

\* the sort key of _sorted_findings: f comes strictly before g
SortsBefore(f, g) ==
    \/ SeverityOrder(f.severity) > SeverityOrder(g.severity)
    \/ /\ SeverityOrder(f.severity) = SeverityOrder(g.severity)
       /\ LowerTitleKey(f.title) < LowerTitleKey(g.title)

RECURSIVE InsertSorted(_, _)
InsertSorted(f, sorted) ==
    IF sorted = <<>> THEN <<f>>
    ELSE IF SortsBefore(f, Head(sorted))
         THEN <<f>> \o sorted
         ELSE <<Head(sorted)>> \o InsertSorted(f, Tail(sorted))

RECURSIVE SortedFindings(_)
\* _sorted_findings: sorted() is stable
SortedFindings(fs) ==
    IF fs = <<>> THEN <<>>
    ELSE InsertSorted(fs[Len(fs)], SortedFindings(SubSeq(fs, 1, Len(fs) - 1)))

\* seq[:limit]
Truncate(seq, limit) == SubSeq(seq, 1, IF Len(seq) < limit THEN Len(seq) ELSE limit)

RECURSIVE PenaltySum(_)
PenaltySum(fs) ==
    IF fs = <<>> THEN 0
    ELSE SeverityPenalty(Head(fs).severity) + PenaltySum(Tail(fs))

\* variant: the score is not clamped
SectionScoreUnclamped(ordered) == 100 - PenaltySum(ordered)

\* score = 100; score -= penalty ...; score = max(0, int(score))
SectionScore(ordered) ==
    LET score == 100 - PenaltySum(ordered)
    IN  IF score < 0 THEN 0 ELSE score

HasCritical(fs) == \E i \in DOMAIN fs : fs[i].severity = "critical"

\* if has_critical or score < 60 ... elif score < 85 ... else
SectionStatus(has_critical, score) ==
    IF has_critical \/ score < 60 THEN "critical"
    ELSE IF score < 85 THEN "attention" ELSE "ok"

RECURSIVE CollectActions(_, _)
\* the loop that fills next_actions
CollectActions(ordered, actions) ==
    IF ordered = <<>> THEN actions
    ELSE LET action == Strip(Head(ordered).how_to_fix)
             known == \E i \in DOMAIN actions : actions[i] = action
             added == IF action # "" /\ ~known THEN Append(actions, action)
                      ELSE actions
         IN  IF Len(added) >= NextActionsLimit THEN added
             ELSE CollectActions(Tail(ordered), added)

NextActions(ordered) ==
    LET actions == CollectActions(ordered, <<>>)
    IN  IF actions = <<>> THEN <<MonitoringAction>>
        ELSE Truncate(actions, NextActionsLimit)

\* _build_section
BuildSection(fs) ==
    LET ordered == Truncate(SortedFindings(fs), FindingsLimit)
        score == SectionScore(ordered)
    IN  [score |-> score,
         status |-> SectionStatus(HasCritical(ordered), score),
         findings |-> ordered,
         next_actions |-> NextActions(ordered)]

\* ---- _build_sections ------------------------------------------------------
RobotsUrl == "/robots.txt"
SitemapUrl == "/sitemap.xml"

\* _count_by_predicate(pages, predicate), the pages that satisfy the
\* predicate in their order, is SelectSeq(pages, predicate) below.

\* variant: the list of URLs is not truncated
TopUrlsAll(ps, limit) == [i \in 1..Len(ps) |-> ps[i].url]

\* _top_urls
TopUrls(ps, limit) ==
    [i \in 1..(IF Len(ps) < limit THEN Len(ps) ELSE limit) |-> ps[i].url]

\* [item["url"] for item in broken_links[:25]]
BrokenUrls(broken) ==
    [i \in 1..(IF Len(broken) < BrokenUrlsLimit THEN Len(broken) ELSE BrokenUrlsLimit)
        |-> broken[i].url]

RECURSIVE SumMissingAlt(_)
\* sum(p.get("images_missing_alt", 0) for p in ...)
SumMissingAlt(ps) ==
    IF ps = <<>> THEN 0 ELSE Head(ps).images_missing_alt + SumMissingAlt(Tail(ps))

RECURSIVE SumMissingLabel(_)
\* sum(p.get("inputs_missing_label", 0) for p in pages)
SumMissingLabel(ps) ==
    IF ps = <<>> THEN 0 ELSE Head(ps).inputs_missing_label + SumMissingLabel(Tail(ps))

\* "noindex" in str(robots_meta).lower()
HasNoindex(robots_meta) == robots_meta \in {"noindex", "NOINDEX"}

\* "noindex" in str(robots_meta), the test of the worst-pages loop
HasNoindexExact(robots_meta) == robots_meta = "noindex"

\* _same_origin(canonical, crawl["url"]) for the canonical of a page
CanonicalSameOrigin(canonical) == canonical = "same-origin"

TitleMissing(p) == p.title_len = 0
TitleLenBad(p) == p.title_len # 0 /\ (p.title_len < 15 \/ p.title_len > 60)
MetaMissing(p) == p.meta_description_len = 0
MetaLenBad(p) ==
    p.meta_description_len # 0
        /\ (p.meta_description_len < 70 \/ p.meta_description_len > 160)
CanonicalMissing(p) == p.canonical = ""
H1Bad(p) == p.h1_count # 1
NoindexPage(p) == HasNoindex(p.robots_meta)
CanonicalConflict(p) == p.canonical # "" /\ ~CanonicalSameOrigin(p.canonical)
MissingLang(p) == p.lang = ""
MissingAlt(p) == p.images_missing_alt > 0
MissingLabel(p) == p.inputs_missing_label > 0
ThinContent(p) == p.word_count < 120
LowHeadingStructure(p) == p.h1_count = 0
SlowPage(p) == p.ttfb_ms > 1200
HeavyHtml(p) == p.html_size_bytes > 512000
HighRequestPage(p) == p.resource_count > 80
RenderBlocking(p) == p.render_blocking_count > 5
HttpErrorPage(p) == p.status >= 400 \/ p.status = 0
RedirectChainPage(p) == p.redirect_hops >= 3
MixedContentPage(p) == p.mixed_content_count > 0

\* one page-level rule: no finding, or one finding about the affected pages
PageRule(id, severity, affected) ==
    IF affected = <<>> THEN <<>>
    ELSE <<MakeFinding(id, severity, affected[1].url,
                       TopUrls(affected, TopUrlsLimit))>>

SeoFindings(c) ==
    LET ps == c.pages
        broken == c.broken_internal_links
    IN  PageRule("seo_title_missing", "high", SelectSeq(ps, TitleMissing))
        \o PageRule("seo_title_length", "medium", SelectSeq(ps, TitleLenBad))
        \o PageRule("seo_meta_description_missing", "medium",
                    SelectSeq(ps, MetaMissing))
        \o PageRule("seo_meta_description_length", "low",
                    SelectSeq(ps, MetaLenBad))
        \o PageRule("seo_canonical_missing", "medium",
                    SelectSeq(ps, CanonicalMissing))
        \o PageRule("seo_h1_count", "medium", SelectSeq(ps, H1Bad))
        \o (IF broken = <<>> THEN <<>>
            ELSE <<MakeFinding("seo_broken_internal_links",
                       IF Len(broken) >= BrokenCriticalCount THEN "critical" ELSE "high",
                       broken[1].url,
                       BrokenUrls(broken))>>)

A11yFindings(c) ==
    LET ps == c.pages
        alt == SelectSeq(ps, MissingAlt)
    IN  PageRule("a11y_img_alt_missing",
                 IF SumMissingAlt(alt) >= MissingAltHighTotal THEN "high" ELSE "medium",
                 alt)
        \o PageRule("a11y_input_label_missing", "high",
                    SelectSeq(ps, MissingLabel))
        \o PageRule("a11y_lang_missing", "medium", SelectSeq(ps, MissingLang))
        \o PageRule("a11y_title_missing", "medium", SelectSeq(ps, TitleMissing))

ContentFindings(c) ==
    PageRule("content_thin_pages", "medium", SelectSeq(c.pages, ThinContent))
    \o PageRule("content_missing_h1", "medium",
                SelectSeq(c.pages, LowHeadingStructure))

PerformanceFindings(c) ==
    PageRule("perf_slow_ttfb", "high", SelectSeq(c.pages, SlowPage))
    \o PageRule("perf_heavy_html", "medium", SelectSeq(c.pages, HeavyHtml))
    \o PageRule("perf_many_requests", "medium",
                SelectSeq(c.pages, HighRequestPage))
    \o PageRule("perf_render_blocking", "medium",
                SelectSeq(c.pages, RenderBlocking))

IndexacaoFindings(c) ==
    (IF c.robots.robots_present THEN <<>>
     ELSE <<MakeFinding("indexacao_robots_missing", "high", RobotsUrl, <<RobotsUrl>>)>>)
    \o (IF c.robots.sitemap_present THEN <<>>
        ELSE <<MakeFinding("indexacao_sitemap_missing", "medium", SitemapUrl,
                           <<SitemapUrl>>)>>)
    \o PageRule("indexacao_noindex_pages", "medium",
                SelectSeq(c.pages, NoindexPage))
    \o PageRule("indexacao_canonical_conflict", "high",
                SelectSeq(c.pages, CanonicalConflict))

\* variant: a page with a server error counts like one with a client error
HttpErrorSeverityHigh(error_pages) == "high"

\* severity of critical_http_errors
HttpErrorSeverity(error_pages) ==
    IF \E i \in DOMAIN error_pages : error_pages[i].status >= 500
    THEN "critical" ELSE "high"

CriticalFindings(c, with_limit_findings) ==
    LET errors == SelectSeq(c.pages, HttpErrorPage)
    IN  PageRule("critical_http_errors", HttpErrorSeverity(errors), errors)
        \o PageRule("critical_redirect_chains", "high",
                    SelectSeq(c.pages, RedirectChainPage))
        \o PageRule("critical_mixed_content", "high",
                    SelectSeq(c.pages, MixedContentPage))
        \o (IF with_limit_findings /\ c.limit_notes # <<>>
            THEN <<MakeFinding("critical_partial_crawl", "critical", c.url, <<c.url>>)>>
            ELSE <<>>)

\* int(sum of the six category scores / 6)
CategoryMean(total) == total \div CategoryCount

\* variant: the overall status follows the score alone
OverallStatusByScore(category_avg, fs) ==
    IF category_avg < 60 THEN "critical"
    ELSE IF category_avg < 85 THEN "attention" ELSE "ok"

\* the status the overall section gets together with the category mean
OverallStatus(category_avg, fs) ==
    IF category_avg < 60 \/ (\E i \in DOMAIN fs : fs[i].severity = "critical")
    THEN "critical"
    ELSE IF category_avg < 85 THEN "attention" ELSE "ok"

\* variant: the category mean replaces the score of every report
OverrideOverallAlways(ps) == TRUE

\* `if pages:`, the test under which the overall score is replaced
OverrideOverall(ps) == ps # <<>>

\* the overall section: built from the retained findings of the six
\* categories, then given the category mean when a page was scanned
OverallSection(ps, cats) ==
    LET built == BuildSection(cats[1].findings \o cats[2].findings
                     \o cats[3].findings \o cats[4].findings
                     \o cats[5].findings \o cats[6].findings)
        category_avg == CategoryMean(cats[1].score + cats[2].score + cats[3].score
                            + cats[4].score + cats[5].score + cats[6].score)
    IN  IF OverrideOverall(ps)
        THEN [built EXCEPT !.score = category_avg,
                           !.status = OverallStatus(category_avg, built.findings)]
        ELSE built

\* the six issue counters of one page and their sum
PageIssues(p) ==
    LET seo == IF p.title_len = 0 \/ p.meta_description_len = 0 \/ p.h1_count # 1
               THEN 1 ELSE 0
        a11y == IF p.images_missing_alt > 0 \/ p.inputs_missing_label > 0
                   \/ p.lang = ""
                THEN 1 ELSE 0
        content == IF p.word_count < 120 THEN 1 ELSE 0
        perf == IF p.ttfb_ms > 1200 \/ p.html_size_bytes > 512000
                   \/ p.render_blocking_count > 5
                THEN 1 ELSE 0
        indexacao == IF HasNoindexExact(p.robots_meta) THEN 1 ELSE 0
        critical == IF p.status >= 400 \/ p.redirect_hops >= 3
                       \/ p.mixed_content_count > 0
                    THEN 1 ELSE 0
    IN  [url |-> p.url, status |-> p.status,
         total_issues |-> seo + a11y + content + perf + indexacao + critical,
         seo_issues |-> seo, a11y_issues |-> a11y, content_issues |-> content,
         performance_issues |-> perf, indexacao_issues |-> indexacao,
         critical_issues |-> critical]

RECURSIVE InsertWorst(_, _)
InsertWorst(w, sorted) ==
    IF sorted = <<>> THEN <<w>>
    ELSE IF w.total_issues > Head(sorted).total_issues
         THEN <<w>> \o sorted
         ELSE <<Head(sorted)>> \o InsertWorst(w, Tail(sorted))

RECURSIVE SortWorst(_)
\* worst_pages.sort(key=total_issues, reverse=True): stable
SortWorst(ws) ==
    IF ws = <<>> THEN <<>>
    ELSE InsertWorst(ws[Len(ws)], SortWorst(SubSeq(ws, 1, Len(ws) - 1)))

WorstPages(ps) ==
    LET issues == [i \in DOMAIN ps |-> PageIssues(ps[i])]
        HasIssue(w) == w.total_issues # 0
    IN  Truncate(SortWorst(SelectSeq(issues, HasIssue)), WorstPagesLimit)

\* variant: no crawl is reported as partial
PartialCrawlNever(notes) == FALSE

\* bool(limit_notes)
PartialCrawl(notes) == notes # <<>>

Appendix(c) ==
    [pages_scanned_html |-> Len(c.pages),
         broken_internal_links_count |-> Len(c.broken_internal_links),
         http_4xx_5xx_pages_count |-> Len(SelectSeq(c.pages, HttpErrorPage)),
         noindex_pages_count |-> Len(SelectSeq(c.pages, NoindexPage)),
         missing_meta_description_count |-> Len(SelectSeq(c.pages, MetaMissing)),
         missing_title_count |-> Len(SelectSeq(c.pages, TitleMissing)),
         missing_lang_count |-> Len(SelectSeq(c.pages, MissingLang)),
         images_missing_alt_total |-> SumMissingAlt(c.pages),
         inputs_missing_label_total |-> SumMissingLabel(c.pages),
         mixed_content_pages_count |-> Len(SelectSeq(c.pages, MixedContentPage)),
         redirect_chain_pages_count |-> Len(SelectSeq(c.pages, RedirectChainPage)),
         robots_present |-> c.robots.robots_present,
         sitemap_present |-> c.robots.sitemap_present,
         links_checked_internal |-> c.links_checked,
         partial_crawl |-> PartialCrawl(c.limit_notes)]

\* _build_sections
BuildSections(c, with_limit_findings) ==
    LET cats == <<BuildSection(SeoFindings(c)),
                  BuildSection(A11yFindings(c)),
                  BuildSection(ContentFindings(c)),
                  BuildSection(PerformanceFindings(c)),
                  BuildSection(IndexacaoFindings(c)),
                  BuildSection(CriticalFindings(c, with_limit_findings))>>
    IN  [sections |-> cats \o <<OverallSection(c.pages, cats)>>,
         appendix |-> Appendix(c),
         worst_pages |-> WorstPages(c.pages)]

\* ---- the report of one finished crawl --------------------------------------
\* the crawler at rest while a report or a section is built
CrawlIdle ==
    /\ max_pages = MaxPagesBound
    /\ max_depth = MaxDepthBound
    /\ max_link_checks = MaxLinkChecksBound
    /\ CrawlStart

crawlVars ==
    <<max_pages, max_depth, max_link_checks, expired, robots_info, queue, queued,
      visited, pages, status_cache, all_internal_links, skipped_by_robots,
      non_html_urls, fetch_errors, limit_notes, link_todo, links_checked,
      broken_internal_links, site, requests>>

\* A page record as _parse_html_page fills it, every measure on the good side
\* of its threshold; title and meta description are kept by their length.
CleanPage(url) ==
    [url |-> url, status |-> 200, title_len |-> 15, meta_description_len |-> 70,
     canonical |-> "same-origin", h1_count |-> 1, robots_meta |-> "",
     lang |-> "pt-BR", images_missing_alt |-> 0, inputs_missing_label |-> 0,
     word_count |-> 120, ttfb_ms |-> 1200, html_size_bytes |-> 512000,
     resource_count |-> 80, render_blocking_count |-> 5, redirect_hops |-> 2,
     mixed_content_count |-> 0]

PageKinds == {"clean", "bad", "other", "long", "plain"}

\* the HTML pages a crawl may have collected
PageOfKind(kind, url) ==
    CASE kind = "clean" -> CleanPage(url)
      [] kind = "bad" ->
            [CleanPage(url) EXCEPT !.status = 500, !.title_len = 0,
                !.meta_description_len = 0, !.canonical = "", !.h1_count = 0,
                !.robots_meta = "noindex", !.lang = "", !.images_missing_alt = 1,
                !.inputs_missing_label = 2, !.word_count = 119, !.ttfb_ms = 1201,
                !.html_size_bytes = 512001, !.resource_count = 81,
                !.render_blocking_count = 6, !.redirect_hops = 3,
                !.mixed_content_count = 1]
      [] kind = "other" ->
            [CleanPage(url) EXCEPT !.status = 404, !.title_len = 14,
                !.meta_description_len = 69, !.canonical = "other-origin",
                !.h1_count = 2, !.robots_meta = "NOINDEX"]
      [] kind = "long" ->
            [CleanPage(url) EXCEPT !.title_len = 61, !.meta_description_len = 161,
                !.images_missing_alt = 20, !.robots_meta = "index, follow"]
      [] kind = "plain" ->
            [CleanPage(url) EXCEPT !.title_len = 60, !.meta_description_len = 160,
                !.word_count = 0, !.status = 301]
      [] kind = "unlisted" ->
            [CleanPage(url) EXCEPT !.title_len = 14, !.canonical = "",
                !.resource_count = 81, !.robots_meta = "NOINDEX"]

PageKindLists == UNION {[1..n -> PageKinds] : n \in 0..MaxReportPages}

\* pages[i] has URL i; `padding` more pages of the kind "bad" follow
ReportPages(kinds, padding) ==
    [i \in 1..(Len(kinds) + padding) |->
        IF i <= Len(kinds) THEN PageOfKind(kinds[i], i) ELSE PageOfKind("bad", i)]

BrokenCounts == {0, 1, BrokenCriticalCount - 1, BrokenCriticalCount, MaxBroken}

BrokenLinks(n) == [i \in 1..n |-> [url |-> i, status |-> IF i = 1 THEN 0 ELSE 404]]

\* what _fetch_robots_and_sitemap hands to the report
RobotsResults ==
    {FetchRobotsAndSitemap(probe.status, {}, probe.sitemap) : probe \in RobotsOutcomes}

\* the value _crawl_site returns, as far as _build_sections reads it
CrawlResults ==
    {[url |-> SeedUrl,
      pages |-> ReportPages(kinds, padding),
      broken_internal_links |-> BrokenLinks(n_broken),
      robots |-> robots,
      limit_notes |-> notes,
      links_checked |-> n_broken] :
        kinds \in PageKindLists, padding \in {0, MaxPadding},
        n_broken \in BrokenCounts, robots \in RobotsResults,
        notes \in {<<>>, <<NoteMaxPages>>}}

ReportInit ==
    /\ pc = "report_input"
    /\ CrawlIdle
    /\ crawl \in {c \in CrawlResults :
                     c.pages = <<>> => c.broken_internal_links = <<>>}
    /\ include_limit_findings \in BOOLEAN
    /\ report = NoValue
    /\ findings = <<>>
    /\ section = NoValue
    /\ ServiceIdle

\* sections, appendix, worst_pages = _build_sections(crawl, ...)
BuildReport ==
    /\ pc = "report_input"
    /\ report' = BuildSections(crawl, include_limit_findings)
    /\ pc' = "report_built"
    /\ UNCHANGED <<crawl, include_limit_findings, findings, section>>
    /\ UNCHANGED <<crawlVars, serviceVars>>

ReportNext == BuildReport

ReportSpec == ReportInit /\ [][ReportNext]_vars

\* ---- one call of _build_section ---------------------------------------------
RuleIds ==
    <<"seo_title_missing", "seo_title_length", "seo_meta_description_missing",
      "seo_meta_description_length", "seo_canonical_missing", "seo_h1_count",
      "seo_broken_internal_links", "a11y_img_alt_missing",
      "a11y_input_label_missing", "a11y_lang_missing", "a11y_title_missing",
      "content_thin_pages", "content_missing_h1", "perf_slow_ttfb",
      "perf_heavy_html", "perf_many_requests", "perf_render_blocking",
      "indexacao_robots_missing", "indexacao_sitemap_missing",
      "indexacao_noindex_pages", "indexacao_canonical_conflict",
      "critical_http_errors", "critical_redirect_chains",
      "critical_mixed_content", "critical_partial_crawl">>

\* the severities of a list of findings, repeated in a cycle; "info" is a
\* severity neither table knows
SeverityCycles ==
    {<<"critical">>, <<"high">>, <<"medium">>, <<"low">>, <<"info">>,
     <<"low", "critical">>, <<"medium", "high", "low">>,
     <<"low", "info", "high", "critical">>}

FixKinds == {"own", "empty", "blank", "same", "padded", "mixed"}

PaddedFix == " Migrar todos os recursos para HTTPS. "

\* the how_to_fix of the i-th finding of a list
FixOfKind(kind, i) ==
    CASE kind = "own" -> FindingFix(RuleIds[i])
      [] kind = "empty" -> ""
      [] kind = "blank" -> " "
      [] kind = "same" -> FindingFix("seo_title_missing")
      [] kind = "padded" ->
            IF i % 3 = 1 THEN PaddedFix
            ELSE IF i % 3 = 2 THEN FindingFix("critical_mixed_content")
            ELSE FindingFix("seo_title_missing")
      [] kind = "mixed" ->
            IF i % 3 = 0 THEN "" ELSE FindingFix(RuleIds[(i % 4) + 1])

\* the findings handed to _build_section
SampleFindings(n, severities, fix_kind, shouted) ==
    [i \in 1..n |->
        [MakeFinding(RuleIds[i], severities[((i - 1) % Len(severities)) + 1],
                     i, <<i>>)
            EXCEPT !.how_to_fix = FixOfKind(fix_kind, i),
                   !.title = IF shouted /\ i = 1 THEN ShoutedTitle ELSE @]]

SectionInit ==
    /\ pc = "section_input"
    /\ CrawlIdle
    /\ crawl = NoValue
    /\ include_limit_findings = FALSE
    /\ report = NoValue
    /\ \E n \in 0..MaxFindings, severities \in SeverityCycles,
          fix_kind \in FixKinds, shouted \in BOOLEAN :
            findings = SampleFindings(n, severities, fix_kind, shouted)
    /\ section = NoValue
    /\ ServiceIdle

\* section = _build_section(summary, findings)
BuildSectionCall ==
    /\ pc = "section_input"
    /\ section' = BuildSection(findings)
    /\ pc' = "section_built"
    /\ UNCHANGED <<crawl, include_limit_findings, report, findings>>
    /\ UNCHANGED <<crawlVars, serviceVars>>

SectionNext == BuildSectionCall

SectionSpec == SectionInit /\ [][SectionNext]_vars

\* ===========================================================================
\* Properties of the section builder and of the report
\* ===========================================================================
Severities == {"critical", "high", "medium", "low"}

\* the penalty table as the claim spells it
ClaimedPenalty(severity) ==
    CASE severity = "critical" -> 35
      [] severity = "high" -> 20
      [] severity = "medium" -> 10
      [] severity = "low" -> 4
      [] OTHER -> 0

RECURSIVE ClaimedPenaltySum(_)
ClaimedPenaltySum(fs) ==
    IF fs = <<>> THEN 0
    ELSE ClaimedPenalty(Head(fs).severity) + ClaimedPenaltySum(Tail(fs))

ClaimedScore(fs) ==
    IF ClaimedPenaltySum(fs) > 100 THEN 0 ELSE 100 - ClaimedPenaltySum(fs)

\* score, number of findings and number of next_actions of a built section
SectionShape(sec, given) ==
    /\ sec.score = ClaimedScore(sec.findings)
    /\ sec.score >= 0 /\ sec.score <= 100
    /\ Len(sec.findings) <= 10
    /\ Len(sec.findings) = (IF Len(given) < 10 THEN Len(given) ELSE 10)
    /\ \A i \in DOMAIN sec.findings : \E j \in DOMAIN given : sec.findings[i] = given[j]
    /\ Len(sec.next_actions) >= 1 /\ Len(sec.next_actions) <= 5
    /\ \A i, j \in DOMAIN sec.next_actions :
          i # j => sec.next_actions[i] # sec.next_actions[j]

ClaimedStatus(sec) ==
    IF (\E i \in DOMAIN sec.findings : sec.findings[i].severity = "critical")
          \/ sec.score < 60
    THEN "critical"
    ELSE IF sec.score < 85 THEN "attention" ELSE "ok"

\* C8: each of the seven sections of a report, the overall section with its
\* overridden score included, has status critical iff it retains a critical
\* finding or scores below 60, otherwise attention iff it scores below 85,
\* otherwise ok.
C8_SectionStatus ==
    pc = "report_built" =>
        /\ Len(report.sections) = 7
        /\ \A k \in DOMAIN report.sections :
              report.sections[k].status = ClaimedStatus(report.sections[k])

\* the overall score was replaced by a mean of 85 or more while the section
\* retains a critical finding, and a category is critical on its score alone
C8_Witness ==
    /\ pc = "report_built"
    /\ crawl.pages # <<>>
    /\ report.sections[7].score >= 85
    /\ \E i \in DOMAIN report.sections[7].findings :
          report.sections[7].findings[i].severity = "critical"
    /\ report.sections[7].status = "critical"

SumOfCategoryScores ==
    report.sections[1].score + report.sections[2].score + report.sections[3].score
        + report.sections[4].score + report.sections[5].score
        + report.sections[6].score

\* C9 as stated: the overall score is the floor of the mean of the six
\* category scores when pages is non-empty, and is 100 when pages is empty,
\* whatever robots, sitemap and limit-note findings the crawl produced.
C9_Original ==
    pc = "report_built" =>
        report.sections[7].score =
            (IF crawl.pages # <<>> THEN SumOfCategoryScores \div 6 ELSE 100)

\* C9, amended: the overall score is the floor of the mean of the six category
\* scores when pages is non-empty; when pages is empty it is the score of the
\* section builder over the findings of the empty crawl, that is 100 less 20
\* for a missing robots.txt, 10 for a missing sitemap and 35 for the
\* partial-crawl finding.
C9_OverallScore ==
    pc = "report_built" =>
        report.sections[7].score =
            (IF crawl.pages # <<>> THEN SumOfCategoryScores \div 6
             ELSE 100 - (IF crawl.robots.robots_present THEN 0 ELSE 20)
                      - (IF crawl.robots.sitemap_present THEN 0 ELSE 10)
                      - (IF include_limit_findings /\ crawl.limit_notes # <<>>
                         THEN 35 ELSE 0))

\* an empty crawl without robots.txt and sitemap that hit a limit: the overall
\* score is 35 while the floor of the category mean would be 89
C9_Witness ==
    /\ pc = "report_built"
    /\ crawl.pages = <<>>
    /\ report.sections[7].score = 35
    /\ SumOfCategoryScores \div 6 = 89

\* C10: every finding of a report has a severity among critical, high, medium
\* and low, at most 25 affected_urls, and a non-empty evidence list whose
\* first entry names the first affected URL of its rule.
C10_FindingShape ==
    pc = "report_built" =>
        \A k \in DOMAIN report.sections :
            \A i \in DOMAIN report.sections[k].findings :
                LET f == report.sections[k].findings[i]
                IN  /\ f.severity \in Severities
                    /\ Len(f.affected_urls) <= 25
                    /\ f.affected_urls # <<>>
                    /\ f.evidence # <<>>
                    /\ f.evidence[1].url = f.affected_urls[1]

\* a rule with more than 25 affected pages reported 25 of them, its evidence
\* being the first, and 26 broken links were cut to 25 as well
C10_Witness ==
    /\ pc = "report_built"
    /\ Len(crawl.pages) > 25
    /\ Len(crawl.broken_internal_links) > 25
    /\ \E i \in DOMAIN report.sections[1].findings :
          LET f == report.sections[1].findings[i]
          IN  /\ f.id = "seo_title_missing"
              /\ Len(f.affected_urls) = 25
              /\ crawl.pages[1].title_len # 0
              /\ f.evidence[1].url = 2
    /\ \E i \in DOMAIN report.sections[1].findings :
          /\ report.sections[1].findings[i].id = "seo_broken_internal_links"
          /\ Len(report.sections[1].findings[i].affected_urls) = 25

\* ===========================================================================
\* validate_url
\* ===========================================================================
\* A URL text is kept by its parts: surrounding blanks, scheme, and the
\* userinfo, host and port of the netloc, path, query and fragment.  A text
\* without scheme carries neither userinfo nor port.
RawUrls ==
    {u \in [padded : BOOLEAN,
            scheme : {"", "http", "https", "HTTPS", "ftp"},
            userinfo : {"", "user:secret"},
            host : {"", "example.com", "localhost", "LOCALHOST", "intranet",
                    "127.0.0.1", "[::1]"},
            port : {"", "8080"},
            path : {"", "/", "/docs"},
            query : {"", "q=1"},
            fragment : {"", "top"}] :
        u.scheme = "" => (u.userinfo = "" /\ u.port = "")}

\* (raw_url or "").strip() is the empty text
IsBlank(u) ==
    /\ u.scheme = "" /\ u.userinfo = "" /\ u.host = "" /\ u.port = ""
    /\ u.path = "" /\ u.query = "" /\ u.fragment = ""

\* urlparse(value).scheme (lower case), "https" after the prefix was added
ParsedScheme(u) ==
    CASE u.scheme = "" -> "https"
      [] u.scheme = "HTTPS" -> "https"
      [] OTHER -> u.scheme

\* parsed.netloc: userinfo, host and port as they were typed
ParsedNetloc(u) == [userinfo |-> u.userinfo, host |-> u.host, port |-> u.port]

NetlocIsEmpty(netloc) == netloc.userinfo = "" /\ netloc.host = "" /\ netloc.port = ""

\* parsed.hostname: the host in lower case, without the brackets of IPv6
HostName(host) ==
    CASE host = "LOCALHOST" -> "localhost"
      [] host = "[::1]" -> "::1"
      [] OTHER -> host

\* ipaddress.ip_address(hostname) does not raise
IsIpLiteral(hostname) == hostname \in {"127.0.0.1", "::1"}

\* "." in hostname
HasDot(hostname) == hostname \in {"example.com", "127.0.0.1"}

InvalidUrl(reason) == [ok |-> FALSE, error |-> reason]

\* the netloc handed to urlunparse: parsed.netloc
NormalizedNetloc(netloc) == netloc

\* parsed.path or "/"
NormalizedPath(path) == IF path = "" THEN "/" ELSE path

\* validate_url
ValidateUrl(u) ==
    IF IsBlank(u) THEN InvalidUrl("url is required")
    ELSE IF ParsedScheme(u) \notin {"http", "https"}
         THEN InvalidUrl("url must start with http:// or https://")
    ELSE IF NetlocIsEmpty(ParsedNetloc(u)) THEN InvalidUrl("invalid url")
    ELSE IF /\ HostName(u.host) # "localhost"
            /\ ~IsIpLiteral(HostName(u.host))
            /\ ~HasDot(HostName(u.host))
         THEN InvalidUrl("invalid url host")
    ELSE [ok |-> TRUE,
          scheme |-> ParsedScheme(u),
          netloc |-> NormalizedNetloc(ParsedNetloc(u)),
          path |-> NormalizedPath(u.path),
          params |-> "",
          query |-> u.query,
          fragment |-> ""]

\* the text of a normalized URL, as the callers hand it on
AsRawUrl(n) ==
    [padded |-> FALSE, scheme |-> n.scheme, userinfo |-> n.netloc.userinfo,
     host |-> n.netloc.host, port |-> n.netloc.port, path |-> n.path,
     query |-> n.query, fragment |-> n.fragment]

UrlInit ==
    /\ pc = "url_input"
    /\ CrawlIdle
    /\ ReportIdle
    /\ raw_url \in RawUrls
    /\ validated = NoValue
    /\ ApiIdle
    /\ RunIdle
    /\ SlideIdle
    /\ CallIdle

\* normalized = validate_url(raw_url)
ValidateUrlCall ==
    /\ pc = "url_input"
    /\ validated' = ValidateUrl(raw_url)
    /\ pc' = "url_checked"
    /\ UNCHANGED <<raw_url, crawlVars, reportVars, apiVars, runVars, slideVars, callVars>>

UrlNext == ValidateUrlCall

UrlSpec == UrlInit /\ [][UrlNext]_vars

\* what the claim requires of an accepted URL, userinfo apart
AcceptedShape ==
    validated.ok =>
        /\ validated.scheme \in {"http", "https"}
        /\ validated.fragment = ""
        /\ validated.netloc.host = raw_url.host
        /\ validated.netloc.port = raw_url.port
        /\ validated.query = raw_url.query
        /\ validated.path = (IF raw_url.path = "" THEN "/" ELSE raw_url.path)

\* the rejections the claim lists
RejectsAsClaimed ==
    /\ IsBlank(raw_url) => ~validated.ok
    /\ raw_url.scheme = "ftp" => ~validated.ok
    /\ raw_url.host = "" => ~validated.ok
    /\ raw_url.host = "intranet" => ~validated.ok

\* C20: every URL validate_url accepts comes back as
\* scheme://host[:port]path[?query] with scheme http or https, without
\* fragment and without userinfo, an empty path replaced by "/"; the empty
\* text, a scheme other than http and https, an empty host and a dot-less host
\* that is neither localhost nor an IP literal are rejected.
C20_Original ==
    pc = "url_checked" =>
        /\ AcceptedShape
        /\ RejectsAsClaimed
        /\ validated.ok => validated.netloc.userinfo = ""

\* ===========================================================================
\* The service: POST /report and POST /analyze_summary over the two caches
\* ===========================================================================
MAX_PAGES == 150
MAX_DEPTH == 6
MAX_RUNTIME_SECONDS == 120
MAX_LINK_CHECKS == 400
SUMMARY_MAX_PAGES == 12
SUMMARY_MAX_DEPTH == 1
SUMMARY_MAX_RUNTIME_SECONDS == 8
SUMMARY_MAX_LINK_CHECKS == 0
SUMMARY_CACHE_TTL_SECONDS == 600
AUDIT_CACHE_TTL_SECONDS == 900

Profiles == {"full", "summary"}

\* variant: the summary profile reports limit findings like the full one
IncludeLimitFindingsAlways(profile) == TRUE

\* include_limit_findings as run_detailed_audit sets it for a profile
IncludeLimitFindings(profile) == profile # "summary"

\* the budgets run_detailed_audit hands to _crawl_site
AuditSettings(profile) ==
    IF profile = "summary"
    THEN [profile |-> profile,
          max_pages |-> SUMMARY_MAX_PAGES, max_depth |-> SUMMARY_MAX_DEPTH,
          max_runtime_seconds |-> SUMMARY_MAX_RUNTIME_SECONDS,
          max_link_checks |-> SUMMARY_MAX_LINK_CHECKS,
          include_limit_findings |-> IncludeLimitFindings(profile)]
    ELSE [profile |-> profile,
          max_pages |-> MAX_PAGES, max_depth |-> MAX_DEPTH,
          max_runtime_seconds |-> MAX_RUNTIME_SECONDS,
          max_link_checks |-> MAX_LINK_CHECKS,
          include_limit_findings |-> IncludeLimitFindings(profile)]

\* Results _crawl_site may return for the audited site: a healthy site, and a
\* site with a faulty seed page whose crawl ran out of time.  Links are
\* checked only when the profile has a link budget.
SampleCrawls(profile) ==
    LET with_links == AuditSettings(profile).max_link_checks > 0
        found == FetchRobotsAndSitemap(200, {}, TRUE)
        absent == FetchRobotsAndSitemap(404, {}, FALSE)
    IN  {[url |-> SeedUrl, pages |-> ReportPages(<<"clean">>, 0),
          broken_internal_links |-> <<>>, robots |-> found,
          limit_notes |-> <<>>, links_checked |-> 0],
         [url |-> SeedUrl, pages |-> ReportPages(<<"other", "clean">>, 0),
          broken_internal_links |-> IF with_links THEN BrokenLinks(1) ELSE <<>>,
          robots |-> absent, limit_notes |-> <<NoteRuntimeCrawl>>,
          links_checked |-> IF with_links THEN 1 ELSE 0]}

\* _build_sections as run_detailed_audit calls it, tabulated over the crawl
\* results of the model
BuiltSections ==
    [profile \in Profiles |->
        [crawled \in SampleCrawls(profile) |->
            BuildSections(crawled, AuditSettings(profile).include_limit_findings)]]

\* run_detailed_audit, given what _crawl_site returned at time `at`: the
\* fields url, generated_at and crawl, and with them the sections, worst_pages
\* and appendix that _build_sections returned
RunDetailedAudit(url, profile, crawled, at) ==
    [url |-> url,
     generated_at |-> at,
     crawl |-> [pages_scanned_html |-> Len(crawled.pages),
                max_pages |-> AuditSettings(profile).max_pages,
                max_depth |-> AuditSettings(profile).max_depth,
                max_runtime_seconds |-> AuditSettings(profile).max_runtime_seconds,
                max_link_checks |-> AuditSettings(profile).max_link_checks,
                limit_notes |-> crawled.limit_notes]]
    @@ BuiltSections[profile][crawled]

\* _audit_cache_key
AuditCacheKey(url, profile) == <<profile, url>>

\* variant: an entry is still reused when its age equals the TTL
IsFreshInclusive(entry, at, ttl) == entry # NoValue /\ (at - entry.at) <= ttl

\* `cached and (now - cached[0]) < ttl`
IsFresh(entry, at, ttl) == entry # NoValue /\ (at - entry.at) < ttl

\* _status_pt
StatusPt(status) ==
    CASE status = "ok" -> "ok"
      [] status = "attention" -> "atencao"
      [] status = "critical" -> "critico"
      [] OTHER -> "atencao"

\* variant: every answer is labelled as freshly processed
OrigemDadosNovo(veio_do_cache) == "processamento_novo"

\* origem_dados of run_report_json
OrigemDados(veio_do_cache) == IF veio_do_cache THEN "cache" ELSE "processamento_novo"

\* the JSON run_report_json builds from an audit
ReportJson(detailed, veio_do_cache) ==
    [url |-> detailed.url,
     gerado_em |-> detailed.generated_at,
     origem_dados |-> OrigemDados(veio_do_cache),
     score_geral |-> detailed.sections[7].score,
     status_geral |-> StatusPt(detailed.sections[7].status),
     secoes |-> [k \in 1..CategoryCount |->
                    [score |-> detailed.sections[k].score,
                     status |-> StatusPt(detailed.sections[k].status),
                     principais_achados |->
                        [i \in DOMAIN detailed.sections[k].findings |->
                            detailed.sections[k].findings[i].id]]],
     crawl_parcial |-> detailed.appendix.partial_crawl]

\* What the chat-completions call may bring back.
LlmOutcomes ==
    {"sentences", "no_api_key", "http_status", "transport_error", "unparsable",
     "not_an_object", "key_missing", "value_not_text"}

\* variant: a reply that lacks a key is narrated with the keys it has
LlmFailedLenient(outcome) ==
    outcome \notin {"sentences", "key_missing", "value_not_text"}

\* _llm_executive_summary raises LLMUnavailableError
LlmFailed(outcome) == outcome # "sentences"

\* the mapping _llm_executive_summary returns: one sentence per section key,
\* written from the status of the section
LlmExecutiveSummary(sections, outcome) ==
    [k \in 1..7 |-> IF outcome = "sentences" THEN <<k, sections[k].status>>
                    ELSE <<k, "">>]

\* _get_or_run_detailed_audit: the audit, whether it came from the cache, the
\* cache afterwards, and the settings of the crawl it ran, if it ran one.
\* `detailed` is what run_detailed_audit(normalized, profile=profile) returns
\* when it is called at this moment.
GetOrRunDetailedAudit(cache, url, profile, cache_ttl_seconds, detailed, at) ==
    LET normalized == ValidateUrl(AsRawUrl(url))
        key == AuditCacheKey(normalized, profile)
    IN  IF IsFresh(cache[key], at, cache_ttl_seconds)
        THEN [detailed |-> cache[key].audit, from_cache |-> TRUE,
              cache |-> cache, crawled |-> <<>>]
        ELSE [detailed |-> detailed, from_cache |-> FALSE,
              cache |-> [cache EXCEPT ![key] = [at |-> at, audit |-> detailed]],
              crawled |-> <<AuditSettings(profile)>>]

\* run_report_json
RunReportJson(cache, url, detailed, at) ==
    LET got == GetOrRunDetailedAudit(cache, url, "full", AUDIT_CACHE_TTL_SECONDS,
                                     detailed, at)
    IN  [status |-> 200,
         body |-> ReportJson(got.detailed, got.from_cache),
         audit_cache |-> got.cache,
         crawled |-> got.crawled,
         narrated |-> FALSE]

\* variant: the full audit is looked up only after the summary audit
PrefersFullAuditNever(cached_full, at) == FALSE

\* `cached_full and (now - cached_full[0]) < AUDIT_CACHE_TTL_SECONDS`
PrefersFullAudit(cached_full, at) == IsFresh(cached_full, at, AUDIT_CACHE_TTL_SECONDS)

\* run_executive_summary; LLMUnavailableError shows as status 503
RunExecutiveSummary(cache, summaries, url, summary_audit, outcome, at) ==
    LET normalized == ValidateUrl(AsRawUrl(url))
        full_key == AuditCacheKey(normalized, "full")
    IN  IF IsFresh(summaries[normalized], at, SUMMARY_CACHE_TTL_SECONDS)
        THEN [status |-> 200, body |-> summaries[normalized].summary,
              audit_cache |-> cache, summary_cache |-> summaries,
              crawled |-> <<>>, narrated |-> FALSE]
        ELSE LET got == IF PrefersFullAudit(cache[full_key], at)
                        THEN [detailed |-> cache[full_key].audit,
                              from_cache |-> TRUE, cache |-> cache, crawled |-> <<>>]
                        ELSE GetOrRunDetailedAudit(cache, normalized, "summary",
                                 SUMMARY_CACHE_TTL_SECONDS, summary_audit, at)
                 llm_summary == LlmExecutiveSummary(got.detailed.sections, outcome)
             IN  IF LlmFailed(outcome)
                 THEN [status |-> 503, body |-> "LLMUnavailableError",
                       audit_cache |-> got.cache, summary_cache |-> summaries,
                       crawled |-> got.crawled, narrated |-> TRUE]
                 ELSE [status |-> 200, body |-> llm_summary,
                       audit_cache |-> got.cache,
                       summary_cache |->
                           [summaries EXCEPT ![normalized] =
                               [at |-> at, summary |-> llm_summary]],
                       crawled |-> got.crawled, narrated |-> TRUE]

\* variant: the URL is validated before the token is looked at
GateStatusUrlFirst(configured, x_api_token, raw) ==
    IF ~ValidateUrl(raw).ok THEN 400
    ELSE IF configured = "" THEN 500
    ELSE IF x_api_token # configured THEN 401 ELSE 200

\* _validate_api_token, then validate_url, as both endpoints run them:
\* the status of the rejection, or 200 when the request goes on
GateStatus(configured, x_api_token, raw) ==
    IF configured = "" THEN 500
    ELSE IF x_api_token # configured THEN 401
    ELSE IF ~ValidateUrl(raw).ok THEN 400 ELSE 200

\* The URLs clients send: two spellings of one site and a rejected host.
RequestUrls ==
    {[padded |-> FALSE, scheme |-> "", userinfo |-> "", host |-> "example.com",
      port |-> "", path |-> "", query |-> "", fragment |-> ""],
     [padded |-> TRUE, scheme |-> "HTTPS", userinfo |-> "", host |-> "example.com",
      port |-> "", path |-> "/", query |-> "", fragment |-> "top"],
     [padded |-> FALSE, scheme |-> "http", userinfo |-> "", host |-> "intranet",
      port |-> "", path |-> "/", query |-> "", fragment |-> ""]}

NormalUrls == {ValidateUrl(u) : u \in {r \in RequestUrls : ValidateUrl(r).ok}}

AuditKeys == {AuditCacheKey(url, profile) : url \in NormalUrls, profile \in Profiles}

\* X-API-Token as sent: the token, or anything else (no header included)
TokensSent == {"secret", "wrong"}

ApiInit ==
    /\ pc = "serving"
    /\ CrawlIdle
    /\ ReportIdle
    /\ raw_url = NoValue
    /\ validated = NoValue
    /\ api_token \in {"", "secret"}
    /\ now = 0
    /\ audit_cache = [k \in AuditKeys |-> NoValue]
    /\ summary_cache = [u \in NormalUrls |-> NoValue]
    /\ served = 0
    /\ advances = 0
    /\ last_report = [u \in NormalUrls |-> NoValue]
    /\ exchange = NoValue
    /\ RunIdle
    /\ SlideIdle
    /\ CallIdle

\* the request just answered: what it returned, the crawls it ran (by their
\* settings) and whether it called _llm_executive_summary
Answer(endpoint, raw, token, outcome, result) ==
    [endpoint |-> endpoint, raw |-> raw, token |-> token,
     llm |-> IF result.narrated THEN outcome ELSE "not called",
     status |-> result.status, body |-> result.body,
     crawled |-> result.crawled, narrated |-> result.narrated]

\* the HTTPException of a rejected request: nothing ran
Rejection(status) ==
    [status |-> status, body |-> NoValue, crawled |-> <<>>, narrated |-> FALSE,
     audit_cache |-> audit_cache, summary_cache |-> summary_cache]

\* the handler returns or raises: the answer goes out, the caches are as the
\* call left them
Respond(endpoint, raw, token, outcome, result) ==
    /\ exchange' = Answer(endpoint, raw, token, outcome, result)
    /\ audit_cache' = result.audit_cache
    /\ summary_cache' = result.summary_cache
    /\ last_report' =
          IF endpoint = "report" /\ result.status = 200
          THEN [last_report EXCEPT ![ValidateUrl(raw)] =
                   [at |-> now, body |-> result.body]]
          ELSE last_report

\* POST /report; run_report_json leaves _SUMMARY_CACHE alone
PostReport ==
    /\ pc = "serving"
    /\ served < MaxRequests
    /\ \E raw \in RequestUrls, token \in TokensSent, crawled \in SampleCrawls("full") :
          Respond("report", raw, token, "",
                  IF GateStatus(api_token, token, raw) # 200
                  THEN Rejection(GateStatus(api_token, token, raw))
                  ELSE RunReportJson(audit_cache, ValidateUrl(raw),
                           RunDetailedAudit(ValidateUrl(raw), "full", crawled, now),
                           now)
                       @@ [summary_cache |-> summary_cache])
    /\ served' = served + 1
    /\ UNCHANGED <<pc, api_token, now, advances>>
    /\ UNCHANGED <<crawlVars, reportVars, urlVars, runVars, slideVars, callVars>>

\* POST /analyze_summary
PostAnalyzeSummary ==
    /\ pc = "serving"
    /\ served < MaxRequests
    /\ \E raw \in RequestUrls, token \in TokensSent,
          crawled \in SampleCrawls("summary"), outcome \in LlmOutcomes :
          Respond("analyze_summary", raw, token, outcome,
                  IF GateStatus(api_token, token, raw) # 200
                  THEN Rejection(GateStatus(api_token, token, raw))
                  ELSE RunExecutiveSummary(audit_cache, summary_cache,
                           ValidateUrl(raw),
                           RunDetailedAudit(ValidateUrl(raw), "summary", crawled, now),
                           outcome, now))
    /\ served' = served + 1
    /\ UNCHANGED <<pc, api_token, now, advances>>
    /\ UNCHANGED <<crawlVars, reportVars, urlVars, runVars, slideVars, callVars>>

\* time passes between two requests
Advance ==
    /\ pc = "serving"
    /\ advances < MaxAdvances
    /\ \E d \in {SUMMARY_CACHE_TTL_SECONDS,
                 AUDIT_CACHE_TTL_SECONDS - SUMMARY_CACHE_TTL_SECONDS} :
          now' = now + d
    /\ advances' = advances + 1
    /\ UNCHANGED <<pc, api_token, audit_cache, summary_cache, served,
                   last_report, exchange>>
    /\ UNCHANGED <<crawlVars, reportVars, urlVars, runVars, slideVars, callVars>>

ApiNext == PostReport \/ PostAnalyzeSummary \/ Advance

ApiSpec == ApiInit /\ [][ApiNext]_vars


(***************************************************************************)
(* Claims about the cached service                                         *)
(***************************************************************************)

\* the step is a request being answered on the named endpoint
Answers(endpoint) ==
    /\ served' = served + 1
    /\ exchange'.endpoint = endpoint

\* the request passed the token check and the URL validation
PassedGate(e) == e.status \notin {500, 401, 400}

FullKey(u) == AuditCacheKey(u, "full")

SummaryKey(u) == AuditCacheKey(u, "summary")

\* the age, at the time of the request, of a cache entry
Age(entry) == now - entry.at

\* two reports give the same score and status overall and for every section
SameVerdicts(a, b) ==
    /\ a.score_geral = b.score_geral
    /\ a.status_geral = b.status_geral
    /\ \A k \in 1..CategoryCount :
          /\ a.secoes[k].score = b.secoes[k].score
          /\ a.secoes[k].status = b.secoes[k].status

\* C11: a report request made on caches that hold nothing is answered from a
\* new crawl and labelled "processamento_novo"; the next report request for
\* the same normalized URL, made less than 900 s after it, runs no crawl, is
\* labelled "cache" and carries the same score and status overall and for
\* every section.
C11_SecondReportFromCache ==
    [][(Answers("report") /\ exchange'.status = 200) =>
          LET u == ValidateUrl(exchange'.raw)
              first == last_report[u]
              second == exchange'
          IN  /\ (\A k \in AuditKeys : audit_cache[k] = NoValue) =>
                    /\ second.body.origem_dados = "processamento_novo"
                    /\ second.crawled = <<AuditSettings("full")>>
              /\ (/\ first # NoValue
                  /\ first.body.origem_dados = "processamento_novo"
                  /\ Age(first) < 900) =>
                    /\ second.crawled = <<>>
                    /\ second.body.origem_dados = "cache"
                    /\ SameVerdicts(second.body, first.body)]_vars

\* a second report was answered from the cache 600 s after the first one
\* had crawled the site
C11_Witness ==
    /\ exchange # NoValue
    /\ exchange.endpoint = "report"
    /\ exchange.status = 200
    /\ exchange.body.origem_dados = "cache"
    /\ \E u \in NormalUrls :
          /\ audit_cache[FullKey(u)] # NoValue
          /\ last_report[u] # NoValue
          /\ last_report[u].at = audit_cache[FullKey(u)].at + 600
          /\ last_report[u].body = exchange.body


\* an entry exists and is younger than ttl when the request arrives
Younger(entry, ttl) == entry # NoValue /\ Age(entry) < ttl

\* The audit cache as its readers use it, with summary_ttl the age up to which
\* an entry of the summary profile is reused: run_report_json reads the full
\* entry; run_executive_summary, once its own cache missed, reads the full
\* entry and then the summary entry.  An entry that is reused is returned
\* without a crawl and left as it is; one that is not is replaced.
ReusedWhileYounger(summary_ttl) ==
    LET e == exchange'
        u == ValidateUrl(e.raw)
        full == audit_cache[FullKey(u)]
        summary == audit_cache[SummaryKey(u)]
    IN  /\ (Answers("report") /\ PassedGate(e)) =>
              IF Younger(full, 900)
              THEN /\ e.crawled = <<>>
                   /\ audit_cache' = audit_cache
                   /\ e.body.gerado_em = full.audit.generated_at
              ELSE /\ e.crawled # <<>>
                   /\ audit_cache'[FullKey(u)].at = now
        /\ (Answers("analyze_summary") /\ PassedGate(e) /\ e.narrated) =>
              IF Younger(full, 900)
              THEN /\ e.crawled = <<>>
                   /\ audit_cache' = audit_cache
              ELSE IF Younger(summary, summary_ttl)
              THEN /\ e.crawled = <<>>
                   /\ audit_cache' = audit_cache
              ELSE /\ e.crawled # <<>>
                   /\ audit_cache'[SummaryKey(u)].at = now

\* C12 as stated: every entry of the audit cache, whichever profile stored it,
\* is reused by every reader while its age is below 900 s and never from
\* 900 s on.
C12_Original == [][ReusedWhileYounger(900)]_vars

\* C12: an entry of the full profile is reused by both readers while its age
\* is below 900 s and never from 900 s on; an entry of the summary profile,
\* which only run_executive_summary reads, is reused while its age is below
\* 600 s and never from 600 s on.
C12_ReusedByProfileTtl == [][ReusedWhileYounger(600)]_vars

\* the summary audit stored at 0 for a narrated summary was crawled again by
\* the request made at 600, whose narration failed
C12_Witness ==
    /\ exchange # NoValue
    /\ exchange.endpoint = "analyze_summary"
    /\ exchange.status = 503
    /\ exchange.crawled # <<>>
    /\ \E u \in NormalUrls :
          /\ audit_cache[FullKey(u)] = NoValue
          /\ summary_cache[u] # NoValue
          /\ summary_cache[u].at = 0
          /\ audit_cache[SummaryKey(u)] # NoValue
          /\ audit_cache[SummaryKey(u)].at = 600


\* some section of the audit lists a finding with this id
Emits(audit, id) ==
    \E k \in DOMAIN audit.sections :
       \E i \in DOMAIN audit.sections[k].findings :
          audit.sections[k].findings[i].id = id

\* the narrator output is the one written from these sections
NarratedFrom(body, sections) ==
    \A k \in DOMAIN sections : body[k] = <<k, sections[k].status>>

\* the settings of a crawl run with the summary budgets
SummaryBudgets ==
    [profile |-> "summary",
     max_pages |-> SUMMARY_MAX_PAGES, max_depth |-> SUMMARY_MAX_DEPTH,
     max_runtime_seconds |-> SUMMARY_MAX_RUNTIME_SECONDS,
     max_link_checks |-> SUMMARY_MAX_LINK_CHECKS,
     include_limit_findings |-> FALSE]

\* C13: run_executive_summary looks up the summary cache, then the full audit,
\* then a summary audit.  With a summary entry younger than 600 s it returns
\* that mapping without a crawl, without the LLM and without changing either
\* cache; otherwise with a fresh full audit it runs no crawl and narrates the
\* sections of that audit; it crawls only when both miss, and then with the
\* summary budgets and without a critical_partial_crawl finding.
C13_LookupOrder ==
    [][(Answers("analyze_summary") /\ PassedGate(exchange')) =>
          LET e == exchange'
              u == ValidateUrl(e.raw)
              cached == summary_cache[u]
              full == audit_cache[FullKey(u)]
          IN  /\ Younger(cached, 600) =>
                    /\ e.status = 200
                    /\ e.body = cached.summary
                    /\ e.crawled = <<>>
                    /\ ~e.narrated
                    /\ audit_cache' = audit_cache
                    /\ summary_cache' = summary_cache
              /\ (~Younger(cached, 600) /\ Younger(full, 900)) =>
                    /\ e.crawled = <<>>
                    /\ e.narrated
                    /\ audit_cache' = audit_cache
                    /\ e.status = 200 => NarratedFrom(e.body, full.audit.sections)
              /\ e.crawled # <<>> =>
                    /\ ~Younger(cached, 600)
                    /\ ~Younger(full, 900)
                    /\ e.crawled = <<SummaryBudgets>>
                    /\ audit_cache'[SummaryKey(u)].at = now
                    /\ ~Emits(audit_cache'[SummaryKey(u)].audit,
                              "critical_partial_crawl")
                    /\ e.status = 200 =>
                          NarratedFrom(e.body,
                                       audit_cache'[SummaryKey(u)].audit.sections)]_vars

\* a summary was narrated from the full audit a report had stored, and no
\* summary audit was ever run
C13_Witness ==
    /\ exchange # NoValue
    /\ exchange.endpoint = "analyze_summary"
    /\ exchange.status = 200
    /\ exchange.narrated
    /\ exchange.crawled = <<>>
    /\ \E u \in NormalUrls :
          /\ audit_cache[FullKey(u)] # NoValue
          /\ audit_cache[SummaryKey(u)] = NoValue
          /\ summary_cache[u] # NoValue
          /\ NarratedFrom(summary_cache[u].summary,
                          audit_cache[FullKey(u)].audit.sections)


\* every sentence of a narrator output is there
CompleteSummary(summary) ==
    /\ DOMAIN summary = 1..7
    /\ \A k \in 1..7 : summary[k][1] = k /\ summary[k][2] # ""

\* C14: when the narrator fails (no API key, a non-2xx answer, a transport
\* error, unparsable JSON, a reply that is no object, a key missing or not a
\* string) /analyze_summary answers 503 and SUMMARY_CACHE stays as it was; no
\* partial mapping is ever cached; /report never calls the LLM and answers 200
\* whenever the request passed the token and URL checks.
C14_NarratorFailure ==
    /\ [](\A u \in NormalUrls :
             summary_cache[u] # NoValue => CompleteSummary(summary_cache[u].summary))
    /\ [][(Answers("analyze_summary") /\ exchange'.narrated
              /\ exchange'.llm # "sentences") =>
             /\ exchange'.status = 503
             /\ summary_cache' = summary_cache]_vars
    /\ [][Answers("report") =>
             /\ ~exchange'.narrated
             /\ exchange'.llm = "not called"
             /\ summary_cache' = summary_cache
             /\ PassedGate(exchange') => exchange'.status = 200]_vars

\* the narrator answered without one of the keys after an earlier summary for
\* the URL had expired: 503, and the cache still holds the earlier mapping
C14_Witness ==
    /\ exchange # NoValue
    /\ exchange.endpoint = "analyze_summary"
    /\ exchange.llm = "key_missing"
    /\ exchange.status = 503
    /\ now = 600
    /\ \E u \in NormalUrls :
          /\ summary_cache[u] # NoValue
          /\ summary_cache[u].at = 0


\* C15: on /report and on /analyze_summary a request is rejected with 500 when
\* API_TOKEN is not configured, else with 401 when X-API-Token differs from
\* it, else with 400 when the URL fails validation; a request rejected with
\* one of these starts no crawl, calls no LLM and leaves both caches as they
\* were; a /report request that is not rejected this way answers 200.
C15_RejectionOrder ==
    [][(served' = served + 1) =>
          LET e == exchange'
              expected == IF api_token = "" THEN 500
                          ELSE IF e.token # api_token THEN 401
                          ELSE IF ~ValidateUrl(e.raw).ok THEN 400
                          ELSE 200
          IN  /\ e.endpoint \in {"report", "analyze_summary"}
              /\ expected # 200 =>
                    /\ e.status = expected
                    /\ e.crawled = <<>>
                    /\ ~e.narrated
                    /\ audit_cache' = audit_cache
                    /\ summary_cache' = summary_cache
              /\ expected = 200 => e.status \in {200, 503}
              /\ (expected = 200 /\ e.endpoint = "report") => e.status = 200]_vars

\* a request with a wrong token and an invalid URL was answered 401 while the
\* audit cache held an entry
C15_Witness ==
    /\ exchange # NoValue
    /\ exchange.status = 401
    /\ exchange.token # api_token
    /\ ~ValidateUrl(exchange.raw).ok
    /\ \E k \in AuditKeys : audit_cache[k] # NoValue


\* the findings of a section that carry this id
FindingsWithId(sec, id) ==
    {i \in DOMAIN sec.findings : sec.findings[i].id = id}

\* C17: an audit lists critical_partial_crawl, with severity critical and in
\* erros_criticos, exactly when it ran with the full profile and its crawl left
\* a limit note; an audit of the summary profile never lists it; partial_crawl
\* of the appendix, crawl_parcial of the report, is true exactly when the
\* crawl left a limit note, in both profiles.
C17_PartialCrawlFinding ==
    \A key \in AuditKeys :
       audit_cache[key] # NoValue =>
          LET audit == audit_cache[key].audit
              profile == key[1]
              partial == audit.crawl.limit_notes # <<>>
              listed == FindingsWithId(audit.sections[6], "critical_partial_crawl")
          IN  /\ (listed # {}) <=> (profile = "full" /\ partial)
              /\ \A i \in listed : audit.sections[6].findings[i].severity = "critical"
              /\ \A k \in 1..5 :
                    FindingsWithId(audit.sections[k], "critical_partial_crawl") = {}
              /\ FindingsWithId(audit.sections[7], "critical_partial_crawl") # {}
                    => listed # {}
              /\ profile = "summary" => ~Emits(audit, "critical_partial_crawl")
              /\ audit.appendix.partial_crawl <=> partial
              /\ ReportJson(audit, TRUE).crawl_parcial <=> partial

\* the caches hold a full audit and a summary audit of crawls that both left
\* a limit note: the first lists the finding, the second does not
C17_Witness ==
    \E u \in NormalUrls :
       /\ audit_cache[FullKey(u)] # NoValue
       /\ audit_cache[SummaryKey(u)] # NoValue
       /\ audit_cache[FullKey(u)].audit.crawl.limit_notes # <<>>
       /\ audit_cache[SummaryKey(u)].audit.crawl.limit_notes # <<>>
       /\ Emits(audit_cache[FullKey(u)].audit, "critical_partial_crawl")
       /\ audit_cache[SummaryKey(u)].audit.appendix.partial_crawl


(***************************************************************************)
(* Reports of a site whose seed page answers 500                           *)
(***************************************************************************)

\* Crawl results whose first page, the seed, is an HTML response with status
\* 500 and the other signals of any kind of page; at most one page follows.
SeedErrorCrawls ==
    {[url |-> SeedUrl,
      pages |-> <<[PageOfKind(seed_kind, SeedUrl) EXCEPT !.status = 500]>>
                   \o [i \in 1..Len(rest) |-> PageOfKind(rest[i], SeedUrl + i)],
      broken_internal_links |-> BrokenLinks(n_broken),
      robots |-> robots,
      limit_notes |-> notes,
      links_checked |-> n_broken] :
        seed_kind \in PageKinds,
        rest \in UNION {[1..n -> PageKinds] : n \in 0..1},
        n_broken \in {0, 1}, robots \in RobotsResults,
        notes \in {<<>>, <<NoteMaxPages>>}}

SeedErrorInit ==
    /\ pc = "report_input"
    /\ CrawlIdle
    /\ crawl \in SeedErrorCrawls
    /\ include_limit_findings \in BOOLEAN
    /\ report = NoValue
    /\ findings = <<>>
    /\ section = NoValue
    /\ ServiceIdle

SeedErrorSpec == SeedErrorInit /\ [][ReportNext]_vars

\* the report of a crawl whose seed page has status 500 is built
SeedErrorReported ==
    /\ pc = "report_built"
    /\ crawl.pages[1].url = crawl.url
    /\ crawl.pages[1].status = 500

\* critical_http_errors is listed in erros_criticos with severity critical and
\* the overall status is critical
SeedErrorIsCritical ==
    /\ \E i \in DOMAIN report.sections[6].findings :
          /\ report.sections[6].findings[i].id = "critical_http_errors"
          /\ report.sections[6].findings[i].severity = "critical"
    /\ report.sections[7].status = "critical"

\* C18 as stated: when the seed answers 500 with an HTML response, the report
\* lists critical_http_errors with severity critical, the overall score is at
\* most 65 and the overall status is critical, whatever the other signals of
\* the page.
C18_Original ==
    SeedErrorReported =>
        /\ SeedErrorIsCritical
        /\ report.sections[7].score <= 65

\* C18: when the seed answers 500 with an HTML response, the report lists
\* critical_http_errors with severity critical, the score of erros_criticos is
\* at most 65, the overall score is at most 94 and the overall status is
\* critical, whatever the other signals of the page.
C18_SeedServerError ==
    SeedErrorReported =>
        /\ SeedErrorIsCritical
        /\ report.sections[6].score <= 65
        /\ report.sections[6].status = "critical"
        /\ report.sections[7].score <= 94

\* the seed answers 500 with an otherwise faultless page on a site with
\* robots.txt and a sitemap: erros_criticos scores 65, the report 94
C18_Witness ==
    /\ SeedErrorReported
    /\ Len(crawl.pages) = 1
    /\ report.sections[6].score = 65
    /\ report.sections[7].score = 94
    /\ report.sections[7].status = "critical"


(***************************************************************************)
(* A full audit, crawl and report, and its repetition on the same site     *)
(***************************************************************************)

\* the dictionary _crawl_site returns, without its two clock readings
Returned ==
    [url |-> SeedUrl,
     pages |-> pages,
     status_cache |-> status_cache,
     broken_internal_links |-> broken_internal_links,
     links_checked |-> links_checked,
     all_internal_links_count |-> Cardinality(all_internal_links),
     skipped_by_robots |-> skipped_by_robots,
     non_html_urls |-> non_html_urls,
     fetch_errors |-> fetch_errors,
     robots |-> robots_info,
     limit_notes |-> limit_notes]

\* a page record as _build_sections reads it: the status of the response, and
\* the measures of a document that gives no rule a reason to fire
AuditedPage(page) == [CleanPage(page.url) EXCEPT !.status = page.status]

\* run_detailed_audit with the full profile, once _crawl_site has returned
FinishAudit ==
    /\ pc = "done"
    /\ crawl' = [url |-> Returned.url,
                 pages |-> [i \in DOMAIN pages |-> AuditedPage(pages[i])],
                 broken_internal_links |-> broken_internal_links,
                 robots |-> robots_info,
                 limit_notes |-> limit_notes,
                 links_checked |-> links_checked]
    /\ include_limit_findings' = IncludeLimitFindings("full")
    /\ report' = BuildSections(crawl', include_limit_findings')
    /\ pc' = "audited"
    /\ UNCHANGED <<findings, section>>
    /\ UNCHANGED <<crawlVars, serviceVars>>

\* the orders in which a run may iterate over a set of URLs
SetOrders == {o \in [1..NumUrls -> Urls] : \A i, j \in 1..NumUrls : o[i] = o[j] => i = j}

\* The audit is run again with the same budgets against the site as the first
\* audit, which no time budget had stopped, found it; the new process iterates
\* over sets in an order of its own.
Rerun ==
    /\ pc = "audited"
    /\ first_run = NoValue
    /\ ~expired
    /\ first_run' = [returned |-> Returned, site |-> site, requests |-> requests,
                     report |-> report]
    /\ set_order' \in SetOrders
    /\ pc' = "robots"
    /\ expired' = FALSE
    /\ robots_info' = [robots_present |-> FALSE, robots_status |-> NoStatus,
                       sitemap_present |-> FALSE, robot_parser |-> FALSE,
                       disallowed |-> {}]
    /\ queue' = <<<<SeedUrl, 0>>>>
    /\ queued' = {SeedUrl}
    /\ visited' = {}
    /\ pages' = <<>>
    /\ status_cache' = [u \in CacheKeys |-> NoStatus]
    /\ all_internal_links' = {}
    /\ skipped_by_robots' = 0
    /\ non_html_urls' = 0
    /\ fetch_errors' = <<>>
    /\ limit_notes' = <<>>
    /\ link_todo' = <<>>
    /\ links_checked' = 0
    /\ broken_internal_links' = <<>>
    /\ site' = [u \in Urls |-> NoResponse]
    /\ requests' = <<>>
    /\ crawl' = NoValue
    /\ include_limit_findings' = FALSE
    /\ report' = NoValue
    /\ UNCHANGED <<max_pages, max_depth, max_link_checks, findings, section>>
    /\ UNCHANGED <<urlVars, apiVars, slideVars, callVars>>

AuditNext == Next \/ FinishAudit \/ Rerun

AuditSpec == Init /\ [][AuditNext]_vars

FailedFetches ==
    {u \in Urls : site[u] # NoResponse /\ (site[u].status >= 400 \/ site[u].status = 0)}

\* C19 as stated: an audit lists critical_http_errors whenever some URL fetched
\* in phase 1 ended with status >= 400 or with status 0, with severity
\* critical if such a status is >= 500 and high otherwise; an audit whose seed
\* fetch failed at transport level lists the finding and its erros_criticos
\* section does not have status ok.
C19_Original ==
    pc = "audited" =>
        LET listed == FindingsWithId(report.sections[6], "critical_http_errors")
        IN  /\ FailedFetches # {} =>
                  /\ listed # {}
                  /\ \A i \in listed :
                        report.sections[6].findings[i].severity =
                            IF \E u \in FailedFetches : site[u].status >= 500
                            THEN "critical" ELSE "high"
            /\ site[SeedUrl].kind = "exception" =>
                  /\ listed # {}
                  /\ report.sections[6].status # "ok"


\* ---- further properties of the crawl and of its audit ----------------------
\* the requests phase 2 has sent
LinkRequests == SelectSeq(requests, LAMBDA r : r[1] = "HEAD")

\* the sections of the report that list a finding of this id
SectionsListing(id) ==
    {s \in DOMAIN report.sections : FindingsWithId(report.sections[s], id) # {}}

\* C22: links_checked never exceeds max_link_checks; once it has reached
\* max_link_checks phase 2 sends no request and checks no link; and with
\* max_link_checks = 0 phase 2 does nothing: links_checked stays 0,
\* broken_internal_links stays empty, no request is sent for a link, neither
\* link-check limit note is added, and the audit has no
\* seo_broken_internal_links finding.
C22_LinkBudget ==
    /\ [](links_checked <= max_link_checks)
    /\ [][(pc = "links" /\ links_checked >= max_link_checks)
            => /\ requests' = requests
               /\ links_checked' = links_checked
               /\ status_cache' = status_cache
               /\ broken_internal_links' = broken_internal_links]_vars
    /\ [](max_link_checks = 0
            => /\ links_checked = 0
               /\ broken_internal_links = <<>>
               /\ link_todo = <<>>
               /\ LinkRequests = <<>>
               /\ ~HasNote(limit_notes, NoteMaxLinkChecks)
               /\ ~HasNote(limit_notes, NoteRuntimeLinks)
               /\ pc = "audited" => SectionsListing("seo_broken_internal_links") = {})

\* an audit without link checks has ended on a site with two links, one of
\* them a page that phase 1 fetched with status 404
C22_Witness ==
    /\ pc = "audited"
    /\ max_link_checks = 0
    /\ Cardinality(all_internal_links) = 2
    /\ \E link \in all_internal_links : status_cache[link] = 404
    /\ report.appendix.links_checked_internal = 0


\* _crawl_site called with a link budget that may cover every link of the site
LinkInit ==
    /\ pc = "robots"
    /\ max_pages \in {1, 2, MaxPagesBound}
    /\ max_depth \in {0, 1, MaxDepthBound}
    /\ max_link_checks \in {MaxLinkChecksBound, MaxSiteLinks}
    /\ CrawlStart
    /\ ReportIdle
    /\ ServiceIdle

LinkSpec == LinkInit /\ [][Next]_vars

\* the links phase 2 has taken from sorted(all_internal_links) so far, and
\* those of them it has checked, robots.txt allowing
TakenLinks ==
    IF pc \in {"links", "done", "audited"} /\ max_link_checks > 0
    THEN all_internal_links \ {link_todo[i] : i \in DOMAIN link_todo}
    ELSE {}

CheckedLinks == {l \in TakenLinks : ~RobotsDisallows(robots_info, l)}

BrokenListed == {broken_internal_links[i].url : i \in DOMAIN broken_internal_links}

\* the status the claim gives a link: the cached one if there is one, else
\* that of HEAD, or of the GET that follows a 405 or 501, or 0 after a failure
ClaimedLinkStatus(cached, head, get) ==
    CASE cached # NoStatus -> cached
      [] cached = NoStatus /\ head = Raised -> 0
      [] cached = NoStatus /\ head \in {405, 501} /\ get = Raised -> 0
      [] cached = NoStatus /\ head \in {405, 501} /\ get # Raised -> get
      [] OTHER -> head

\* the requests the claim has a check send
ClaimedRequests(link, cached, head) ==
    CASE cached # NoStatus -> <<>>
      [] cached = NoStatus /\ head \in {405, 501} -> <<<<"HEAD", link>>, <<"GET", link>>>>
      [] OTHER -> <<<<"HEAD", link>>>>

\* C23: a link is in broken_internal_links iff phase 2 checked it and its
\* resolved status is 0 or >= 400, with the status it resolved to, and at most
\* once; every check resolves the status as claimed: the cached status without
\* a request, else the status of HEAD, replaced by that of one GET iff HEAD
\* returned 405 or 501, and 0 if HEAD or that GET raised.
C23_BrokenLinks ==
    /\ [](/\ \A l \in Urls :
                l \in BrokenListed
                    <=> (l \in CheckedLinks
                         /\ (status_cache[l] = 0 \/ status_cache[l] >= 400))
          /\ \A i, j \in DOMAIN broken_internal_links :
                /\ broken_internal_links[i].status
                       = status_cache[broken_internal_links[i].url]
                /\ broken_internal_links[i].url = broken_internal_links[j].url
                       => i = j)
    /\ [][(pc = "links" /\ links_checked' = links_checked + 1) =>
            LET link == Head(link_todo)
                cached == status_cache[link]
            IN  \E head \in HeadOutcomes, get \in GetOutcomes :
                  LET status == ClaimedLinkStatus(cached, head, get)
                  IN  /\ status_cache' = [status_cache EXCEPT ![link] = status]
                      /\ requests' = requests \o ClaimedRequests(link, cached, head)
                      /\ broken_internal_links' =
                            IF status = 0 \/ status >= 400
                            THEN Append(broken_internal_links,
                                        [url |-> link, status |-> status])
                            ELSE broken_internal_links]_vars

\* phase 2 has checked two links: one that phase 1 had found broken, without
\* a request, and one whose HEAD was followed by a GET
C23_Witness ==
    /\ pc = "done"
    /\ links_checked = 2
    /\ \E l \in BrokenListed : site[l] # NoResponse
    /\ \E l \in CheckedLinks :
          /\ \E i \in DOMAIN requests : requests[i] = <<"GET", l>>
          /\ \E i \in DOMAIN requests : requests[i] = <<"HEAD", l>>


\* the URLs robots.txt disallows
Disallowed == {u \in Urls : RobotsDisallows(robots_info, u)}

\* the URLs a request of the crawler was sent to, and those a response came
\* from: the requested URL or, after a redirect, the one the client went on to
RequestedUrls == {requests[i][2] : i \in DOMAIN requests}

AnsweringUrls ==
    {NormLink(site[u].url) : u \in {v \in Urls : site[v].kind \in {"html", "other"}}}

\* C24 as stated: a URL that robots.txt disallows is never requested, no
\* response comes from it, and it is in neither pages nor status_cache; when
\* phase 1 pops it, it is counted once in skipped_by_robots and nothing is
\* fetched; phase 2 skips it without a request and without counting a check;
\* and unless robots.txt was fetched with status 200, nothing is skipped.
C24_Original ==
    /\ [](\A u \in Disallowed :
            /\ u \notin RequestedUrls
            /\ u \notin AnsweringUrls
            /\ u \notin PageUrls
            /\ status_cache[u] = NoStatus)
    /\ [](skipped_by_robots = Cardinality(Disallowed \cap visited))
    /\ [][(pc = "crawl" /\ queue # <<>> /\ queue' # queue
                /\ Head(queue)[1] \in Disallowed)
            => /\ skipped_by_robots' = skipped_by_robots + 1
               /\ requests' = requests
               /\ pages' = pages
               /\ status_cache' = status_cache]_vars
    /\ [][(pc = "links" /\ link_todo # <<>> /\ Head(link_todo) \in Disallowed)
            => /\ requests' = requests
               /\ links_checked' = links_checked
               /\ broken_internal_links' = broken_internal_links]_vars
    /\ [](robots_info.robots_status # 200
            => skipped_by_robots = 0 /\ Disallowed = {})


\* the URLs the crawl holds in its frontier and in its sets
HeldUrls ==
    {queue[i][1] : i \in DOMAIN queue} \cup queued \cup visited
        \cup all_internal_links \cup {link_todo[i] : i \in DOMAIN link_todo}

\* C25: every URL in the queue, in queued, in visited, in all_internal_links
\* or waiting for its link check, and every URL a page GET or a link HEAD/GET
\* is sent to, has the origin of the seed URL, also after a crawled page
\* redirected to another origin before its links were extracted.
C25_StaysOnOrigin ==
    \A u \in HeldUrls \cup RequestedUrls : OriginOf(u) = OriginOf(SeedUrl)

\* a page redirected to another origin; of its two links the one that comes
\* back to the site was kept, followed and fetched
C25_Witness ==
    \E i \in DOMAIN pages :
        /\ OriginOf(pages[i].final_url) # OriginOf(SeedUrl)
        /\ Len(site[pages[i].url].links) = 2
        /\ Len(pages[i].internal_links) = 1
        /\ <<"GET", pages[i].internal_links[1]>> \in
               {requests[k] : k \in (i + 1)..Len(requests)}


\* ---- the ranking of the worst pages ----------------------------------------
\* the pages of PageKinds and one whose faults are a short title, no
\* canonical, many requests and a robots meta spelled in capitals
RankedKinds == PageKinds \cup {"unlisted"}

RankedCrawls ==
    {[url |-> SeedUrl,
      pages |-> ReportPages(kinds, padding),
      broken_internal_links |-> <<>>,
      robots |-> robots,
      limit_notes |-> <<>>,
      links_checked |-> 0] :
        kinds \in UNION {[1..n -> RankedKinds] : n \in 0..MaxReportPages},
        padding \in {0, MaxPadding}, robots \in RobotsResults}

RankedInit ==
    /\ pc = "report_input"
    /\ CrawlIdle
    /\ crawl \in RankedCrawls
    /\ include_limit_findings \in BOOLEAN
    /\ report = NoValue
    /\ findings = <<>>
    /\ section = NoValue
    /\ ServiceIdle

RankedSpec == RankedInit /\ [][ReportNext]_vars

\* 1 if the page is affected by a page-level rule of the category, else 0
Flag(affected) == IF affected THEN 1 ELSE 0

\* the six counters the claim gives a page, from the rules of the findings
ClaimedIssues(p) ==
    [seo_issues |-> Flag(TitleMissing(p) \/ TitleLenBad(p) \/ MetaMissing(p)
                         \/ MetaLenBad(p) \/ CanonicalMissing(p) \/ H1Bad(p)),
     a11y_issues |-> Flag(MissingAlt(p) \/ MissingLabel(p) \/ MissingLang(p)
                          \/ TitleMissing(p)),
     content_issues |-> Flag(ThinContent(p) \/ LowHeadingStructure(p)),
     performance_issues |-> Flag(SlowPage(p) \/ HeavyHtml(p) \/ HighRequestPage(p)
                                 \/ RenderBlocking(p)),
     indexacao_issues |-> Flag(NoindexPage(p) \/ CanonicalConflict(p)),
     critical_issues |-> Flag(HttpErrorPage(p) \/ RedirectChainPage(p)
                              \/ MixedContentPage(p))]

ClaimedTotal(p) ==
    LET c == ClaimedIssues(p)
    IN  c.seo_issues + c.a11y_issues + c.content_issues + c.performance_issues
            + c.indexacao_issues + c.critical_issues

\* C26 as stated: worst_pages holds at most 20 entries, each of a page with
\* total_issues > 0, in non-increasing order of total_issues; each entry has
\* for every category the counter 1 iff a page-level rule of the category
\* lists the page as affected, and their sum as total_issues; and every page
\* that a page-level rule lists is ranked, as long as 20 entries have room.
C26_Original ==
    pc = "report_built" =>
        LET ps == crawl.pages
            ws == report.worst_pages
            listed == {i \in DOMAIN ps : ClaimedTotal(ps[i]) > 0}
        IN  /\ Len(ws) <= WorstPagesLimit
            /\ \A k \in DOMAIN ws :
                  /\ ws[k].total_issues > 0
                  /\ k > 1 => ws[k - 1].total_issues >= ws[k].total_issues
                  /\ \E i \in DOMAIN ps :
                        LET c == ClaimedIssues(ps[i])
                        IN  /\ ws[k].url = ps[i].url
                            /\ ws[k].total_issues = ClaimedTotal(ps[i])
                            /\ ws[k].seo_issues = c.seo_issues
                            /\ ws[k].a11y_issues = c.a11y_issues
                            /\ ws[k].content_issues = c.content_issues
                            /\ ws[k].performance_issues = c.performance_issues
                            /\ ws[k].indexacao_issues = c.indexacao_issues
                            /\ ws[k].critical_issues = c.critical_issues
            /\ Cardinality(listed) <= WorstPagesLimit
                  => \A i \in listed : \E k \in DOMAIN ws : ws[k].url = ps[i].url


\* ===========================================================================
(***************************************************************************)
(* generate_report (src/app/engine/report_generator.py): the line          *)
(* "PROBLEMA CRITICO" of the rendered report.                              *)
(*                                                                         *)
(* The path of a page URL, as urlparse gives it, is a sequence of tokens:  *)
(* "/" and segment names.  A text is kept by its words.                    *)
(***************************************************************************)

ProblemDuplicateHome == "Conteudo duplicado entre / e /home."
ProblemNoindex == "Pagina com indicacao de noindex."
ProblemCanonical == "Canonical ausente na pagina principal."
ProblemMetaDescription == "Meta description ausente ou incompleta."
ProblemNone == "Sem evidencias de problema critico confirmado."

ImpactDuplicateHome == "Risco de canibalizacao de palavras-chave e perda de relevancia."
ImpactNoindex == "Pode impedir indexacao e derrubar visibilidade organica."
ImpactCanonical == "Risco de duplicacao tecnica e enfraquecimento de SEO."
ImpactMetaDescription == "Reduz CTR organico e clareza do snippet."
ImpactNone == "Requer validacao com auditoria completa de indexacao."

\* word_gap <= 20
WordGapLimit == 20

\* paths of page URLs: "", "/", "/home", "home", "home/", "/about"
UrlPaths == {<<>>, <<"/">>, <<"/", "home">>, <<"home">>, <<"home", "/">>,
             <<"/", "about">>}

\* the values of page.get("indexable") and page.get("meta_description")
Indexables == {"True", "False", "None"}
MetaDescriptions == {"None", "", "Lotes em condominio"}

\* str.lower() on the texts of the model
Lower(text) ==
    CASE text = "Home" -> "home"
      [] text = "Inicio" -> "inicio"
      [] text = "Bem-vindo" -> "bem-vindo"
      [] text = "BEM-VINDO" -> "bem-vindo"
      [] OTHER -> text

\* the first page of result["pages"]: any path and any signal
FirstPages ==
    [path : UrlPaths, title : {"Home"}, text_snippet : {"Bem-vindo"},
     word_count : {100}, indexable : Indexables, has_canonical : BOOLEAN,
     meta_description : MetaDescriptions]

\* a page that follows: any path, title, text and length
OtherPages ==
    [path : UrlPaths, title : {"Home", "Inicio"},
     text_snippet : {"Bem-vindo", "BEM-VINDO", "Contato"},
     word_count : {120, 121}, indexable : {"True"}, has_canonical : {TRUE},
     meta_description : {"Lotes em condominio"}]

\* result["pages"], at most n pages
PageLists(n) ==
    {<<>>} \cup {<<first>> \o rest :
                    first \in FirstPages,
                    rest \in UNION {[1..k -> OtherPages] : k \in 0..(n - 1)}}

\* result["page"], when the caller gives one: a page marked noindex
GivenPages ==
    {[path |-> <<"/">>, title |-> "Home", text_snippet |-> "Bem-vindo",
      word_count |-> 100, indexable |-> "False", has_canonical |-> TRUE,
      meta_description |-> "Lotes em condominio"]}

\* the page _primary_page returns for an empty result
EmptyPage ==
    [path |-> <<>>, title |-> "", text_snippet |-> "", word_count |-> 0,
     indexable |-> "None", has_canonical |-> FALSE, meta_description |-> "None"]

PrimaryPage(res) ==
    IF res.page # NoValue THEN res.page
    ELSE IF res.pages # <<>> THEN res.pages[1] ELSE EmptyPage

RECURSIVE RStripSlash(_)
\* path.rstrip("/")
RStripSlash(path) ==
    IF path # <<>> /\ path[Len(path)] = "/"
    THEN RStripSlash(SubSeq(path, 1, Len(path) - 1))
    ELSE path

\* (urlparse(url).path or "/").rstrip("/") in ["", "/"]
IsRootPath(path) == RStripSlash(IF path = <<>> THEN <<"/">> ELSE path) = <<>>

\* (urlparse(url).path or "").rstrip("/") == "home"
IsHomePath(path) == RStripSlash(path) = <<"home">>

\* root_page = next((p for p in pages if ...), None), by its index; 0 is None
RootPage(ps) ==
    IF \E i \in DOMAIN ps : IsRootPath(ps[i].path)
    THEN CHOOSE i \in DOMAIN ps :
            IsRootPath(ps[i].path) /\ \A j \in 1..(i - 1) : ~IsRootPath(ps[j].path)
    ELSE 0

\* home_page = next((p for p in pages if ...), None), by its index; 0 is None
HomePage(ps) ==
    IF \E i \in DOMAIN ps : IsHomePath(ps[i].path)
    THEN CHOOSE i \in DOMAIN ps :
            IsHomePath(ps[i].path) /\ \A j \in 1..(i - 1) : ~IsHomePath(ps[j].path)
    ELSE 0

\* " ".join(f"{title} {text_snippet}".lower().split())
PageText(p) == SelectSeq(<<Lower(p.title), Lower(p.text_snippet)>>,
                         LAMBDA w : w # "")

\* abs(a - b)
Abs(n) == IF n < 0 THEN -n ELSE n

\* the fallback of build_report_slides: "/" and "home" pages that look alike
InferDuplicateHome(ps) ==
    LET r == RootPage(ps)
        h == HomePage(ps)
    IN  /\ r # 0
        /\ h # 0
        /\ ps[r].title = ps[h].title
        /\ \/ PageText(ps[r]) = PageText(ps[h])
           \/ Abs(ps[r].word_count - ps[h].word_count) <= WordGapLimit

\* the dictionary `signals` of build_report_slides, as far as it is read here
Signals(res) ==
    LET page == PrimaryPage(res)
    IN  [duplicate_home |-> res.diagnostics.duplicate_home
                            \/ (res.pages # <<>> /\ InferDuplicateHome(res.pages)),
         indexable |-> page.indexable,
         has_canonical |-> page.has_canonical,
         meta_description |-> page.meta_description]

\* variant: the noindex test comes first
CriticalProblemNoindexFirst(signals) ==
    IF signals.indexable = "False" THEN <<ProblemNoindex, ImpactNoindex>>
    ELSE IF signals.duplicate_home THEN <<ProblemDuplicateHome, ImpactDuplicateHome>>
    ELSE IF ~signals.has_canonical THEN <<ProblemCanonical, ImpactCanonical>>
    ELSE IF signals.meta_description \in {"None", ""}
         THEN <<ProblemMetaDescription, ImpactMetaDescription>>
    ELSE <<ProblemNone, ImpactNone>>

\* _critical_problem
CriticalProblem(signals) ==
    IF signals.duplicate_home THEN <<ProblemDuplicateHome, ImpactDuplicateHome>>
    ELSE IF signals.indexable = "False" THEN <<ProblemNoindex, ImpactNoindex>>
    ELSE IF ~signals.has_canonical THEN <<ProblemCanonical, ImpactCanonical>>
    ELSE IF signals.meta_description \in {"None", ""}
         THEN <<ProblemMetaDescription, ImpactMetaDescription>>
    ELSE <<ProblemNone, ImpactNone>>

\* Slide4 of build_report_slides
BuildReportSlides(res) ==
    LET problem == CriticalProblem(Signals(res))
    IN  [problema_critico |-> problem[1], impacto |-> problem[2]]

\* the two lines render_report writes from them
RenderReport(slide4) ==
    <<[label |-> "PROBLEMA CRITICO", text |-> slide4.problema_critico],
      [label |-> "Impacto", text |-> slide4.impacto]>>

SlidesInit ==
    /\ pc = "slides_input"
    /\ CrawlIdle
    /\ ReportIdle
    /\ raw_url = NoValue
    /\ validated = NoValue
    /\ ApiIdle
    /\ RunIdle
    /\ CallIdle
    /\ result_dict \in [diagnostics : [duplicate_home : BOOLEAN],
                        page : {NoValue} \cup GivenPages,
                        pages : PageLists(MaxResultPages)]
    /\ rendered = <<>>

\* report = generate_report(result)
GenerateReport ==
    /\ pc = "slides_input"
    /\ rendered' = RenderReport(BuildReportSlides(result_dict))
    /\ pc' = "slides_rendered"
    /\ UNCHANGED <<result_dict, crawlVars, reportVars, urlVars, apiVars, runVars,
                   callVars>>

SlidesNext == GenerateReport

SlidesSpec == SlidesInit /\ [][SlidesNext]_vars

\* the text of the line "PROBLEMA CRITICO: ..." of the rendered report
ProblemLine ==
    LET i == CHOOSE k \in DOMAIN rendered : rendered[k].label = "PROBLEMA CRITICO"
    IN  rendered[i].text

\* the problem the page signals alone select, in the claimed order
ProblemOfPage(page) ==
    CASE page.indexable = "False" -> ProblemNoindex
      [] page.indexable # "False" /\ ~page.has_canonical -> ProblemCanonical
      [] page.indexable # "False" /\ page.has_canonical
            /\ page.meta_description \in {"None", ""} -> ProblemMetaDescription
      [] OTHER -> ProblemNone

\* some "/" page and some "home" page exist, and the first of each kind have
\* the same title and either the same text or lengths at most 20 words apart
LooksDuplicated(ps) ==
    \E r, h \in DOMAIN ps :
        /\ IsRootPath(ps[r].path) /\ \A k \in 1..(r - 1) : ~IsRootPath(ps[k].path)
        /\ IsHomePath(ps[h].path) /\ \A k \in 1..(h - 1) : ~IsHomePath(ps[k].path)
        /\ ps[r].title = ps[h].title
        /\ \/ PageText(ps[r]) = PageText(ps[h])
           \/ ps[r].word_count - ps[h].word_count \in (-WordGapLimit)..WordGapLimit

CacheTtl(profile) ==
    IF profile = "summary" THEN SUMMARY_CACHE_TTL_SECONDS
    ELSE AUDIT_CACHE_TTL_SECONDS

\* a call that has not started
IdleCall ==
    [pc |-> "idle", url |-> NoValue, profile |-> NoValue, started |-> 0,
     detailed |-> NoValue, from_cache |-> FALSE, wrote |-> 0]

\* the key a call works on
KeyOf(call) == AuditCacheKey(ValidateUrl(AsRawUrl(call.url)), call.profile)

\* variant: an audit is stored only where the cache holds nothing yet
StoreAuditIfAbsent(cache, key, at, detailed) ==
    IF cache[key] = NoValue
    THEN [cache EXCEPT ![key] = [at |-> at, audit |-> detailed]]
    ELSE cache

\* _AUDIT_CACHE[key] = (now, detailed)
StoreAudit(cache, key, at, detailed) ==
    [cache EXCEPT ![key] = [at |-> at, audit |-> detailed]]

\* how many writes of the cache have happened
Writes == CHOOSE n \in 0..MaxCalls :
             /\ \A c \in DOMAIN calls : calls[c].wrote <= n
             /\ n > 0 => \E c \in DOMAIN calls : calls[c].wrote = n

ConcInit ==
    /\ pc = "serving"
    /\ CrawlIdle
    /\ ReportIdle
    /\ raw_url = NoValue
    /\ validated = NoValue
    /\ api_token = "secret"
    /\ now = 0
    /\ audit_cache = [k \in AuditKeys |-> NoValue]
    /\ summary_cache = [u \in NormalUrls |-> NoValue]
    /\ served = 0
    /\ advances = 0
    /\ last_report = [u \in NormalUrls |-> NoValue]
    /\ exchange = NoValue
    /\ RunIdle
    /\ SlideIdle
    /\ calls = [c \in 1..MaxCalls |-> IdleCall]

\* a call starts: key, now and cached are read; a fresh entry is returned at
\* once, otherwise the call goes on to crawl
CallBegin(c) ==
    /\ pc = "serving"
    /\ calls[c].pc = "idle"
    /\ \E url \in NormalUrls, profile \in Profiles :
          LET key == AuditCacheKey(ValidateUrl(AsRawUrl(url)), profile)
              hit == IsFresh(audit_cache[key], now, CacheTtl(profile))
          IN  calls' = [calls EXCEPT ![c] =
                  [pc |-> IF hit THEN "returned" ELSE "crawling",
                   url |-> url, profile |-> profile, started |-> now,
                   detailed |-> IF hit THEN audit_cache[key].audit ELSE NoValue,
                   from_cache |-> hit, wrote |-> 0]]
    /\ UNCHANGED <<pc, crawlVars, reportVars, urlVars, apiVars, runVars, slideVars>>

\* run_detailed_audit returns: the audit is stored under the time the call
\* read when it started, and returned
CallFinish(c) ==
    /\ pc = "serving"
    /\ calls[c].pc = "crawling"
    /\ \E crawled \in SampleCrawls(calls[c].profile) :
          LET detailed == RunDetailedAudit(ValidateUrl(AsRawUrl(calls[c].url)),
                                           calls[c].profile, crawled, now)
          IN  /\ audit_cache' = StoreAudit(audit_cache, KeyOf(calls[c]),
                                           calls[c].started, detailed)
              /\ calls' = [calls EXCEPT ![c].pc = "returned",
                                        ![c].detailed = detailed,
                                        ![c].wrote = Writes + 1]
    /\ UNCHANGED <<api_token, now, summary_cache, served, advances,
                   last_report, exchange>>
    /\ UNCHANGED <<pc, crawlVars, reportVars, urlVars, runVars, slideVars>>

\* Advance: time passes while calls are under way
ConcNext == (\E c \in 1..MaxCalls : CallBegin(c) \/ CallFinish(c)) \/ Advance

ConcSpec == ConcInit /\ [][ConcNext]_vars

\* the calls that have written the cache under key k
Writers(k) == {c \in DOMAIN calls : calls[c].wrote > 0 /\ KeyOf(calls[c]) = k}

\* call c starts in this step
Begins(c) == calls[c].pc = "idle" /\ calls'[c].pc # "idle"

\* the crawl of call c ends in this step
Finishes(c) == calls[c].pc = "crawling" /\ calls'[c].pc = "returned"

\* C27: calls for one key that interleave and find nothing fresh all crawl and
\* all answer "processamento_novo"; the cache then holds for the key the one
\* entry of the call that wrote last, and a later call that finds this entry
\* younger than the TTL is served it.  A call is never held up by a call that is
\* crawling, and a step changes no entry but the one of the call that finishes.
C27_LastWriterWins ==
    /\ [](\A c \in DOMAIN calls : calls[c].pc = "idle" => ENABLED CallBegin(c))
    /\ [](\A k \in AuditKeys :
            IF Writers(k) = {} THEN audit_cache[k] = NoValue
            ELSE \E c \in Writers(k) :
                    /\ \A d \in Writers(k) : calls[d].wrote <= calls[c].wrote
                    /\ audit_cache[k] = [at |-> calls[c].started,
                                         audit |-> calls[c].detailed])
    /\ [][\A c \in DOMAIN calls :
            /\ Begins(c) =>
                  LET entry == audit_cache[KeyOf(calls'[c])]
                      ttl == IF calls'[c].profile = "full" THEN 900 ELSE 600
                  IN  IF entry # NoValue /\ now - entry.at < ttl
                      THEN /\ calls'[c].pc = "returned"
                           /\ calls'[c].detailed = entry.audit
                           /\ OrigemDados(calls'[c].from_cache) = "cache"
                      ELSE calls'[c].pc = "crawling"
            /\ Finishes(c) =>
                  /\ OrigemDados(calls'[c].from_cache) = "processamento_novo"
                  /\ calls'[c].detailed.generated_at = now
                  /\ audit_cache'[KeyOf(calls[c])].audit = calls'[c].detailed
                  /\ \A k \in AuditKeys \ {KeyOf(calls[c])} :
                        audit_cache'[k] = audit_cache[k]
            /\ ~Finishes(c) /\ (\A d \in DOMAIN calls \ {c} : ~Finishes(d)) =>
                  audit_cache' = audit_cache]_vars

\* two full calls for one URL overlapped, the first to start wrote last, and a
\* third call was served the audit of that last writer
C27_Witness ==
    /\ calls # <<>>
    /\ \A c \in 1..3 : calls[c].pc = "returned" /\ calls[c].profile = "full"
    /\ calls[1].url = calls[2].url /\ calls[2].url = calls[3].url
    /\ calls[1].started < calls[2].started
    /\ calls[2].wrote = 1 /\ calls[1].wrote = 2
    /\ calls[1].detailed # calls[2].detailed
    /\ calls[3].from_cache
    /\ calls[3].detailed = calls[1].detailed
    /\ audit_cache[KeyOf(calls[1])].audit = calls[1].detailed


(***************************************************************************)
(* The crawl followed by its report, and what the report says of budgets   *)
(***************************************************************************)

CrawlAuditNext == Next \/ FinishAudit

CrawlAuditSpec == Init /\ [][CrawlAuditNext]_vars

\* the URLs waiting in the queue
QueueUrls == {queue[i][1] : i \in DOMAIN queue}

\* links found on pages at depth = max_depth that the crawl never queued and
\* never visited
UnfollowedByDepth ==
    {link \in Urls :
        /\ link \notin visited
        /\ link \notin QueueUrls
        /\ \E i \in DOMAIN pages :
              /\ pages[i].depth = max_depth
              /\ \E k \in DOMAIN pages[i].internal_links :
                    pages[i].internal_links[k] = link}

\* the page loop was left with URLs still queued, or the link loop with links
\* still to be checked
LoopCutShort == queue # <<>> \/ link_todo # <<>>

\* C28 as stated: whenever a budget cuts the crawl short, and in particular
\* when links of pages at depth = max_depth are not followed because of the
\* depth budget, limit_notes is non-empty and partial_crawl is true.
C28_Original ==
    (pc = "audited" /\ (LoopCutShort \/ UnfollowedByDepth # {}))
        => (limit_notes # <<>> /\ report.appendix.partial_crawl)

\* C28 (amended): whenever the page loop is left with URLs still queued (page
\* or wall-clock budget) or the link loop with links still unchecked
\* (link-check or wall-clock budget), limit_notes is non-empty and partial_crawl
\* is true, and in no other case: links of pages at depth = max_depth that are
\* not followed because of the depth budget leave no note, so a crawl that
\* only the depth budget cut short has no limit note and partial_crawl false.
C28_PartialWhenLoopCut ==
    pc = "audited" =>
        /\ LoopCutShort <=> limit_notes # <<>>
        /\ report.appendix.partial_crawl <=> limit_notes # <<>>
        /\ crawl.limit_notes = limit_notes

\* a page at depth = max_depth >= 1 has a link nobody followed, no loop was
\* cut, and the report is not partial
C28_Witness ==
    /\ pc = "audited"
    /\ max_depth >= 1
    /\ UnfollowedByDepth # {}
    /\ ~LoopCutShort
    /\ limit_notes = <<>>
    /\ ~report.appendix.partial_crawl


(***************************************************************************)
(* Bookkeeping of phase 1: queue, queued, visited and the counters         *)
(***************************************************************************)

\* the requests of phase 1: one GET for every URL that was fetched
FetchesOfPhase1 == SubSeq(requests, 1, Len(pages) + non_html_urls)

\* the entries this step appended to the queue
Enqueued == SubSeq(queue', Len(queue), Len(queue'))

\* C29: phase 1 fetches each URL at most once.  A URL is queued at most once
\* over the whole crawl: what a step appends to the queue is neither visited
\* nor in the queue, and no URL is in the queue twice; visited URLs never come
\* back.  No two records of pages have the same url, and every record has
\* depth <= max_depth.
C29_FetchedOnce ==
    /\ [](/\ \A i, j \in DOMAIN queue : queue[i][1] = queue[j][1] => i = j
          /\ \A i \in DOMAIN queue : queue[i][1] \notin visited
          /\ \A i \in DOMAIN FetchesOfPhase1 :
                /\ FetchesOfPhase1[i][1] = "GET"
                /\ FetchesOfPhase1[i][2] \in visited
                /\ \A j \in DOMAIN FetchesOfPhase1 :
                      FetchesOfPhase1[i] = FetchesOfPhase1[j] => i = j
          /\ \A i, j \in DOMAIN pages : pages[i].url = pages[j].url => i = j
          /\ \A i \in DOMAIN pages : pages[i].depth <= max_depth)
    /\ [][(pc = "crawl" /\ pc' = "crawl" /\ queue' # queue) =>
            /\ visited \subseteq visited'
            /\ \A i \in DOMAIN Enqueued :
                  /\ Enqueued[i][1] \notin visited'
                  /\ Enqueued[i][1] \notin QueueUrls
                  /\ Enqueued[i][2] <= max_depth]_vars

\* the seed links to itself and to a second page, which redirects back to the
\* seed: the seed was not queued again, and two records share a final_url
C29_Witness ==
    /\ pc = "links"
    /\ Len(pages) = 2
    /\ pages[1].internal_links = <<SeedUrl, 2>>
    /\ pages[2].url = 2
    /\ pages[2].final_url = pages[1].final_url
    /\ Len(requests) = 2
    /\ queue = <<>>

\* C30: after every iteration of the page loop each visited URL is counted in
\* exactly one of pages, non_html_urls and skipped_by_robots; every fetch error
\* is counted in non_html_urls; queued and visited are disjoint, and queued is
\* the set of the URLs in the queue.
C30_Accounting ==
    /\ Cardinality(visited) = Len(pages) + non_html_urls + skipped_by_robots
    /\ \A u \in visited :
          Cardinality({i \in DOMAIN pages : pages[i].url = u})
          + (IF site[u].kind \in NonHtmlKinds THEN 1 ELSE 0)
          + (IF site[u] = NoResponse THEN 1 ELSE 0) = 1
    /\ non_html_urls = Cardinality({u \in visited : site[u].kind \in NonHtmlKinds})
    /\ skipped_by_robots = Cardinality({u \in visited : site[u] = NoResponse})
    /\ Len(fetch_errors) <= non_html_urls
    /\ queued \cap visited = {}
    /\ queued = QueueUrls

\* a crawl that has visited one URL of each kind: a page, a failed GET and a
\* URL robots.txt disallows
C30_Witness ==
    /\ pc = "crawl"
    /\ Len(pages) = 1
    /\ Len(fetch_errors) = 1
    /\ non_html_urls = 1
    /\ skipped_by_robots = 1
    /\ Cardinality(visited) = 3

====
